---- MODULE Spec2Model ----
(***************************************************************************)
(* Email phishing detector: the analysis core of                           *)
(* mac/backend/app/services/analyzer.py and its caller in                  *)
(* mac/backend/app/routers/analyze.py.                                     *)
(*                                                                         *)
(* Numbers.  The code computes with floats, and so does the model: a       *)
(* double is a record [sign, man, exp] of value (-1)^sign * m * 2^exp      *)
(* with 2^52 <= m < 2^53, `man` holding the four digits of m in base 2^14, *)
(* lowest first; zero is FloatZero.  Division, multiplication and addition *)
(* round to nearest, ties to even, as IEEE 754 has it; a decimal literal   *)
(* of the program is the double nearest to it.                             *)
(*                                                                         *)
(* Texts.  A text is a sequence of characters: a printable ASCII character *)
(* is the string of itself, any other is the string of its code point,     *)
(* "U+00C9".  A value that stands where the code expects a text but is     *)
(* none (None, a Header object, a list of parts, a raised exception) is a  *)
(* sequence of one word such as "None", which is no character.             *)
(*                                                                         *)
(* Files.  email.message_from_bytes is library code: an uploaded file is   *)
(* written as the message its bytes spell, or as bytes that spell none.    *)
(*                                                                         *)
(* Specifications: SpecScore (the scoring engine on EmailFeatures          *)
(* records), SpecNorm (_normalize_text), SpecDecode (one upload through    *)
(* analyze_file, statement by statement), SpecReply (two uploads in        *)
(* flight on the event loop), SpecFeatures (_extract_features on           *)
(* EmailContent records), SpecCalls (calls of both endpoints interleaved   *)
(* on the one analyzer).                                                   *)
(***************************************************************************)
EXTENDS Integers, Sequences, FiniteSets, TLC

VARIABLES
    pc,           \* position of the handler that is running
    upload,       \* the parameter `file` of analyze_file
    contents,     \* what `await file.read()` gave the handler, or NoBytes
    message,      \* what email.message_from_bytes returned, or NoMessage
    content,      \* the EmailContent built from it, or NoContent
    error,        \* the HTTPException the request ended with, or NoException
    text,         \* a text handed to _normalize_text
    normalized,   \* what _normalize_text returned for it
    renormalized, \* what _normalize_text returned for that result
    features,     \* the EmailFeatures record the scoring engine is given
    raw_score,    \* local `score` of _ml_like_score before the clamp of line 302
    score,        \* the scalar score _ml_like_score returns
    response,     \* the AnalysisResponse, or NoResponse
    calls,        \* the calls in flight on the two endpoints, one record each
    analyzer      \* the attributes of the module-level _analyzer

vars == <<pc, upload, contents, message, content, error,
          text, normalized, renormalized, features, raw_score, score, response,
          calls, analyzer>>

\* the variables of the file endpoint up to the EmailContent
file_vars == <<upload, contents, message, content, error>>
\* the variables of the normalizer
norm_vars == <<text, normalized, renormalized>>
\* the variables of the calls that share the analyzer
call_vars == <<calls, analyzer>>

\* Python's None where a text may stand
None == <<"None">>
\* EmailAnalyzer.__init__ with its default model_version; _initialize_model
\* is `pass`
new_EmailAnalyzer ==
    [model_version |-> "0.1.0-ml", model |-> None, vectorizer |-> None]
\* an email.header.Header object where a text was expected: what
\* Message.get returns for a header value with bytes outside ASCII
HeaderObject == <<"Header">>
\* a list of Message objects where a text was expected
PartsList == <<"list">>
is_str(v) == v \notin {None, HeaderObject, PartsList}
NoResponse == [kind |-> "none"]

\* ------------------------------------------------------------- bounds
\* Ratio features range over k / RatioDen, k in 0..RatioDen.
RatioDen == 20
\* The largest count a count feature is given.
MaxCount == 6
\* The longest text handed to the normalizer.
MaxTextLen == 5

\* ------------------------------------------------------------ numbers
Min(a, b) == IF a <= b THEN a ELSE b
Max(a, b) == IF a >= b THEN a ELSE b

\* Whole numbers of any size, for the arithmetic of doubles: the sequence of
\* the digits in base 2^14, the lowest first.  (<<>> and <<0>> are both 0.)
LimbBase == 2^14

limb(a, i) == IF i >= 1 /\ i <= Len(a) THEN a[i] ELSE 0

\* the digits of the number whose i-th digit is columns[i], of any size and
\* sign, plus the carry c; the number is not negative
RECURSIVE carry(_, _)
carry(columns, c) ==
    IF columns = <<>>
    THEN IF c = 0 THEN <<>> ELSE <<c % LimbBase>> \o carry(<<>>, c \div LimbBase)
    ELSE LET t == Head(columns) + c
         IN  <<t % LimbBase>> \o carry(Tail(columns), t \div LimbBase)

big_add(a, b) == carry([i \in 1..Max(Len(a), Len(b)) |-> limb(a, i) + limb(b, i)], 0)
\* a - b for a >= b
big_sub(a, b) == carry([i \in 1..Max(Len(a), Len(b)) |-> limb(a, i) - limb(b, i)], 0)

RECURSIVE column(_, _, _, _)
column(a, b, k, i) ==
    IF i > Len(a) THEN 0 ELSE limb(a, i) * limb(b, k + 1 - i) + column(a, b, k, i + 1)

\* a * b, for a of at most four digits
big_mul(a, b) == carry([k \in 1..(Len(a) + Len(b) - 1) |-> column(a, b, k, 1)], 0)

\* a * 2^n
big_shl(a, n) ==
    [i \in 1..(n \div 14) |-> 0] \o carry([i \in 1..Len(a) |-> a[i] * 2^(n % 14)], 0)

\* a \div 2^n
big_shr(a, n) ==
    LET k == n \div 14
        r == n % 14
    IN  IF Len(a) <= k THEN <<>>
        ELSE [i \in 1..(Len(a) - k) |->
                (a[i + k] \div 2^r) + (limb(a, i + k + 1) % 2^r) * 2^(14 - r)]

RECURSIVE big_cmp_from(_, _, _)
big_cmp_from(a, b, i) ==
    IF i = 0 THEN 0
    ELSE IF limb(a, i) > limb(b, i) THEN 1
    ELSE IF limb(a, i) < limb(b, i) THEN -1
    ELSE big_cmp_from(a, b, i - 1)

\* 1, 0 or -1 as a is greater than, equal to or less than b
big_cmp(a, b) == big_cmp_from(a, b, Max(Len(a), Len(b)))

\* int.bit_length()
RECURSIVE int_bit_length(_)
int_bit_length(n) == IF n = 0 THEN 0 ELSE 1 + int_bit_length(n \div 2)

RECURSIVE bit_length_from(_, _)
bit_length_from(a, i) ==
    IF i = 0 THEN 0
    ELSE IF a[i] = 0 THEN bit_length_from(a, i - 1)
    ELSE (i - 1) * 14 + int_bit_length(a[i])

bit_length(a) == bit_length_from(a, Len(a))

RECURSIVE big_of_int(_)
big_of_int(n) == IF n = 0 THEN <<>> ELSE <<n % LimbBase>> \o big_of_int(n \div LimbBase)

\* n digits of the fraction r / b (r < b < 2^17), the lowest first, and the
\* remainder left after them
RECURSIVE long_div(_, _, _)
long_div(r, b, n) ==
    IF n = 0 THEN [q |-> <<>>, r |-> r]
    ELSE LET t == r * LimbBase
             rest == long_div(t % b, b, n - 1)
         IN  [q |-> rest.q \o <<t \div b>>, r |-> rest.r]

\* A Python float is an IEEE 754 double.  The double (-1)^sign * m * 2^exp,
\* 2^52 <= m < 2^53, is the record of its sign, the four digits of m in base
\* 2^14 (lowest first) and exp; 0.0 is FloatZero.  The numbers of this program
\* are far from the subnormal range and from infinity.
\* (The operations take their operands through a one-element set, so that
\* each operand is evaluated once however often the operation reads it.)
Float(sign, man, exp) == [sign |-> sign, man |-> man, exp |-> exp]
FloatZero == Float(0, <<0, 0, 0, 0>>, 0)
float_is_zero(x) == x.man = <<0, 0, 0, 0>>

\* The double nearest to (-1)^sign * n * 2^e, ties to the even mantissa (the
\* rounding of every operation on doubles); `sticky` says that n is the whole
\* part of a number with a fraction that is not zero.
round_half_even(sign, n, e, sticky) ==
    LET pad(a) == [i \in 1..4 |-> limb(a, i)]
        \* m, of 53 or 54 bits, times 2^x
        normal(m, x) ==
            IF m[4] >= 2^11 THEN Float(sign, pad(big_shr(m, 1)), x + 1)
            ELSE Float(sign, pad(m), x)
        \* N of more than 53 bits: its top 53 bits q, and whether the rest is
        \* more than half of q's last place, or half of it and q odd
        cut(N, s) ==
            CHOOSE r \in {
                LET c == big_cmp(big_sub(N, big_shl(q, s)), big_shl(<<1>>, s - 1))
                IN  IF c > 0 \/ (c = 0 /\ (sticky \/ q[1] % 2 = 1))
                    THEN normal(pad(big_add(q, <<1>>)), e + s)
                    ELSE normal(q, e + s)
                : q \in {pad(big_shr(N, s))} } : TRUE
    IN  CHOOSE r \in {
            IF bits = 0 THEN FloatZero
            ELSE IF bits <= 53
            THEN Float(sign, pad(big_shl(N, 53 - bits)), e - (53 - bits))
            ELSE cut(N, bits - 53)
            : N \in {n}, bits \in {bit_length(n)} } : TRUE

\* float(n) for an int n >= 0
float_of_int(n) == round_half_even(0, big_of_int(n), 0, FALSE)

\* a / b for ints a >= 0 and 0 < b < 2^17, and a / float(b): the double
\* nearest to the quotient
int_truediv(a, b) ==
    CHOOSE r \in {
        round_half_even(0, d.q \o big_of_int(d.whole), -6 * 14, d.r # 0)
        : d \in {[whole |-> a \div b] @@ long_div(a % b, b, 6)} } : TRUE

\* the double that the decimal literal n / d denotes, as 0.15 is 15 / 100
Decimal(n, d) == int_truediv(n, d)

\* x * y
float_mul(x, y) ==
    CHOOSE r \in {
        IF float_is_zero(a) \/ float_is_zero(b) THEN FloatZero
        ELSE round_half_even((a.sign + b.sign) % 2, big_mul(a.man, b.man),
                             a.exp + b.exp, FALSE)
        : a \in {x}, b \in {y} } : TRUE

\* 1, 0 or -1 as |x| is greater than, equal to or less than |y|
magnitude_cmp(x, y) ==
    IF float_is_zero(x) \/ float_is_zero(y)
    THEN (IF float_is_zero(x) THEN 0 ELSE 1) - (IF float_is_zero(y) THEN 0 ELSE 1)
    ELSE IF x.exp # y.exp THEN (IF x.exp > y.exp THEN 1 ELSE -1)
    ELSE big_cmp(x.man, y.man)

\* the exact sum of two doubles that are not zero, rounded
add_aligned(x, y) ==
    CHOOSE r \in {
        IF x.sign = y.sign THEN round_half_even(x.sign, big_add(a, b), e, FALSE)
        ELSE IF big_cmp(a, b) = 0 THEN FloatZero
        ELSE IF big_cmp(a, b) > 0 THEN round_half_even(x.sign, big_sub(a, b), e, FALSE)
        ELSE round_half_even(y.sign, big_sub(b, a), e, FALSE)
        : e \in {Min(x.exp, y.exp)},
          a \in {big_shl(x.man, x.exp - Min(x.exp, y.exp))},
          b \in {big_shl(y.man, y.exp - Min(x.exp, y.exp))} } : TRUE

\* x + y.  An operand more than 2^60 times smaller than the other is less
\* than a quarter of the other's last place and is rounded away.
float_add(x, y) ==
    CHOOSE r \in {
        IF float_is_zero(b) THEN a
        ELSE IF float_is_zero(a) THEN b
        ELSE IF a.exp - b.exp > 60 THEN a
        ELSE IF b.exp - a.exp > 60 THEN b
        ELSE add_aligned(a, b)
        : a \in {x}, b \in {y} } : TRUE

\* -x, x - y, abs(x)
float_neg(x) ==
    CHOOSE r \in {IF float_is_zero(a) THEN a ELSE [a EXCEPT !.sign = 1 - a.sign]
                  : a \in {x}} : TRUE
float_sub(x, y) == float_add(x, float_neg(y))
float_abs(x) == [x EXCEPT !.sign = 0]

\* x < y, x <= y
float_lt(x, y) ==
    \E a \in {x}, b \in {y} :
        IF a.sign # b.sign THEN a.sign = 1
        ELSE IF a.sign = 0 THEN magnitude_cmp(a, b) < 0
        ELSE magnitude_cmp(a, b) > 0
float_le(x, y) == \E a \in {x}, b \in {y} : a = b \/ float_lt(a, b)

\* min(x, y) and max(x, y) of Python: y only where it is the smaller (larger)
float_min(x, y) == CHOOSE r \in {IF float_lt(b, a) THEN b ELSE a : a \in {x}, b \in {y}} : TRUE
float_max(x, y) == CHOOSE r \in {IF float_lt(a, b) THEN b ELSE a : a \in {x}, b \in {y}} : TRUE

\* The doubles that the decimal literals of the program denote, by their
\* hundredths: 0.15 is Literal(15), 10.0 is Literal(1000).  Each is
\* Decimal(h, 100), written out.
Literal(h) ==
    CASE h = 5    -> Float(0, << 6554,  9830,  6553,  1638>>, -57)  \* 0x1.999999999999ap-5
      [] h = 6    -> Float(0, << 7864, 11796,  1310,  1966>>, -57)  \* 0x1.eb851eb851eb8p-5
      [] h = 8    -> Float(0, << 5243,  7864, 11796,  1310>>, -56)  \* 0x1.47ae147ae147bp-4
      [] h = 10   -> Float(0, << 6554,  9830,  6553,  1638>>, -56)  \* 0x1.999999999999ap-4
      [] h = 12   -> Float(0, << 7864, 11796,  1310,  1966>>, -56)  \* 0x1.eb851eb851eb8p-4
      [] h = 15   -> Float(0, <<13107,  3276, 13107,  1228>>, -55)  \* 0x1.3333333333333p-3
      [] h = 20   -> Float(0, << 6554,  9830,  6553,  1638>>, -55)  \* 0x1.999999999999ap-3
      [] h = 30   -> Float(0, <<13107,  3276, 13107,  1228>>, -54)  \* 0x1.3333333333333p-2
      [] h = 50   -> Float(0, <<    0,     0,     0,  1024>>, -53)  \* 0x1.0000000000000p-1
      [] h = 100  -> Float(0, <<    0,     0,     0,  1024>>, -52)  \* 0x1.0000000000000p+0
      [] h = 200  -> Float(0, <<    0,     0,     0,  1024>>, -51)  \* 0x1.0000000000000p+1
      [] h = 1000 -> Float(0, <<    0,     0,     0,  1280>>, -49)  \* 0x1.4000000000000p+3

One == Literal(100)
Two == Literal(200)
Ten == Literal(1000)
Half == Literal(50)

\* --------------------------------------------------------------- texts
\* A text is a sequence of characters.  A printable ASCII character is the
\* string of itself, tab, line feed, carriage return and form feed are "\t",
\* "\n", "\r" and "\f", and every other character is the string of its code
\* point, "U+00C9".  The characters of the model are the ASCII ones and the
\* ones that the definitions below name; of another character they say
\* nothing.
UpperLetters ==
    <<"A", "B", "C", "D", "E", "F", "G", "H", "I", "J", "K", "L", "M",
      "N", "O", "P", "Q", "R", "S", "T", "U", "V", "W", "X", "Y", "Z">>
LowerLetters ==
    <<"a", "b", "c", "d", "e", "f", "g", "h", "i", "j", "k", "l", "m",
      "n", "o", "p", "q", "r", "s", "t", "u", "v", "w", "x", "y", "z">>
Digits == {"0", "1", "2", "3", "4", "5", "6", "7", "8", "9"}
Range(seq) == {seq[i] : i \in DOMAIN seq}

\* str.isupper() of one character: a capital of ASCII, E with acute, I with
\* dot above, the Kelvin sign.  The title-case letter U+01C5 is neither upper
\* nor lower.
is_upper(c) == c \in Range(UpperLetters) \cup {"U+00C9", "U+0130", "U+212A"}
\* str.islower() of one character
is_lower(c) ==
    c \in Range(LowerLetters)
            \cup {"U+00DF", "U+00E9", "U+00FF", "U+0131", "U+017F", "U+01C6"}
\* what \s matches, str.strip() strips and str.split() splits at: the six
\* blanks of ASCII, the four separators U+001C to U+001F, next line, the
\* no-break space, the line separator
is_space(c) ==
    c \in {" ", "\t", "\n", "\r", "\f", "U+000B", "U+001C", "U+001D", "U+001E",
           "U+001F", "U+0085", "U+00A0", "U+2028"}

\* str.lower() of one character, a text: I with dot above becomes "i" and
\* the combining dot above
lower_char(c) ==
    IF c \in Range(UpperLetters)
    THEN <<LowerLetters[CHOOSE i \in DOMAIN UpperLetters : UpperLetters[i] = c]>>
    ELSE CASE c = "U+00C9" -> <<"U+00E9">>
           [] c = "U+0130" -> <<"i", "U+0307">>
           [] c = "U+01C5" -> <<"U+01C6">>
           [] c = "U+212A" -> <<"k">>
           [] OTHER -> <<c>>
\* str.lower(): the lower-cased characters, one after the other
lower(t) ==
    LET part == [i \in DOMAIN t |-> lower_char(t[i])]
        first(i) == i + Cardinality({j \in 1..(i - 1) : Len(part[j]) = 2})
        source(k) == CHOOSE i \in DOMAIN t : first(i) <= k /\ k < first(i) + Len(part[i])
    IN  IF \A i \in DOMAIN t : Len(part[i]) = 1 THEN [i \in DOMAIN t |-> part[i][1]]
        ELSE [k \in 1..(first(Len(t)) + Len(part[Len(t)]) - 1) |->
                 part[source(k)][k - first(source(k)) + 1]]

\* re.IGNORECASE: whether the character p of a pattern, not a capital,
\* matches c.  It matches itself and what lower-cases to it; "i" also
\* matches U+0130 and U+0131, and "s" matches U+017F.
matches_ignoring_case(p, c) ==
    \/ c = p
    \/ lower_char(c) = <<p>>
    \/ <<p, c>> \in {<<"i", "U+0130">>, <<"i", "U+0131">>, <<"s", "U+017F">>}

\* the texts over `alphabet` of length at most n
RECURSIVE TextsUpTo(_, _)
TextsUpTo(alphabet, n) ==
    IF n = 0 THEN {<<>>}
    ELSE LET shorter == TextsUpTo(alphabet, n - 1) IN
         shorter \cup {Append(t, c) : t \in {u \in shorter : Len(u) = n - 1}, c \in alphabet}

\* Where a match of <[^>]+> that starts at the "<" of position i ends, or 0:
\* [^>]+ runs to the first ">" after i and must take at least one character.
tag_end(t, i) ==
    LET closers == {j \in (i + 1)..Len(t) : t[j] = ">"} IN
    IF t[i] # "<" \/ closers = {} THEN 0
    ELSE LET j == CHOOSE k \in closers : \A l \in closers : k <= l IN
         IF j >= i + 2 THEN j ELSE 0

\* re.sub(r"<[^>]+>", " ", text) from position i on: leftmost matches, not
\* overlapping
RECURSIVE strip_html_from(_, _)
strip_html_from(t, i) ==
    LET starts == {j \in i..Len(t) : tag_end(t, j) # 0} IN
    IF starts = {} THEN SubSeq(t, i, Len(t))
    ELSE LET j == CHOOSE k \in starts : \A l \in starts : k <= l IN
         SubSeq(t, i, j - 1) \o <<" ">> \o strip_html_from(t, tag_end(t, j) + 1)

\* EmailAnalyzer._strip_html
strip_html(t) == strip_html_from(t, 1)

\* re.sub(r"\s+", " ", text): of each run of whitespace the first character
\* stays, as a space
collapse_spaces(t) ==
    LET kept == {i \in DOMAIN t : ~is_space(t[i]) \/ i = 1 \/ ~is_space(t[i - 1])}
        nth(k) == CHOOSE i \in kept : Cardinality({j \in kept : j <= i}) = k
    IN [k \in 1..Cardinality(kept) |-> IF is_space(t[nth(k)]) THEN " " ELSE t[nth(k)]]

\* str.strip()
strip(t) ==
    LET inked == {i \in DOMAIN t : ~is_space(t[i])} IN
    IF inked = {} THEN <<>>
    ELSE LET first == CHOOSE i \in inked : \A j \in inked : i <= j
             last  == CHOOSE i \in inked : \A j \in inked : i >= j
         IN SubSeq(t, first, last)

\* _normalize_text with strip() applied before the tags are replaced
normalize_text_strip_first(t) == lower(collapse_spaces(strip_html(strip(t))))

\* EmailAnalyzer._normalize_text
normalize_text(t) == lower(strip(collapse_spaces(strip_html(t))))

\* ------------------------------------------------ the feature extractor
\* lines 20-41
SUSPICIOUS_KEYWORDS ==
    <<
       <<"v", "e", "r", "i", "f", "y", " ", "y", "o", "u", "r", " ", "a", "c", "c", "o", "u", "n", "t">>,
       <<"u", "p", "d", "a", "t", "e", " ", "y", "o", "u", "r", " ", "p", "a", "s", "s", "w", "o", "r", "d">>,
       <<"u", "r", "g", "e", "n", "t", " ", "a", "c", "t", "i", "o", "n", " ", "r", "e", "q", "u", "i", "r", "e", "d">>,
       <<"s", "u", "s", "p", "e", "n", "d", "e", "d">>,
       <<"c", "l", "i", "c", "k", " ", "h", "e", "r", "e">>,
       <<"l", "o", "g", "i", "n", " ", "n", "o", "w">>,
       <<"b", "a", "n", "k", " ", "a", "c", "c", "o", "u", "n", "t">>,
       <<"i", "n", "v", "o", "i", "c", "e", " ", "a", "t", "t", "a", "c", "h", "e", "d">>,
       <<"v", "e", "r", "i", "f", "y", " ", "i", "d", "e", "n", "t", "i", "t", "y">>,
       <<"a", "c", "c", "o", "u", "n", "t", " ", "l", "o", "c", "k", "e", "d">>,
       <<"s", "e", "c", "u", "r", "i", "t", "y", " ", "a", "l", "e", "r", "t">>,
       <<"c", "o", "n", "f", "i", "r", "m", " ", "y", "o", "u", "r", " ", "i", "d", "e", "n", "t", "i", "t", "y">>,
       <<"a", "c", "t", " ", "n", "o", "w">>,
       <<"l", "i", "m", "i", "t", "e", "d", " ", "t", "i", "m", "e">>,
       <<"e", "x", "p", "i", "r", "e", "s", " ", "s", "o", "o", "n">>,
       <<"c", "l", "i", "c", "k", " ", "b", "e", "l", "o", "w">>,
       <<"v", "e", "r", "i", "f", "y", " ", "n", "o", "w">>,
       <<"u", "n", "u", "s", "u", "a", "l", " ", "a", "c", "t", "i", "v", "i", "t", "y">>,
       <<"v", "e", "r", "i", "f", "y", " ", "p", "a", "y", "m", "e", "n", "t">>,
       <<"u", "p", "d", "a", "t", "e", " ", "p", "a", "y", "m", "e", "n", "t">> >>

\* lines 43-54
TRUST_SIGNAL_KEYWORDS ==
    <<
       <<"n", "e", "w", "s", "l", "e", "t", "t", "e", "r">>,
       <<"r", "e", "c", "e", "i", "p", "t">>,
       <<"s", "c", "h", "e", "d", "u", "l", "e">>,
       <<"m", "e", "e", "t", "i", "n", "g">>,
       <<"t", "h", "a", "n", "k", " ", "y", "o", "u">>,
       <<"i", "n", "v", "o", "i", "c", "e", " ", "n", "u", "m", "b", "e", "r">>,
       <<"o", "r", "d", "e", "r", " ", "c", "o", "n", "f", "i", "r", "m", "a", "t", "i", "o", "n">>,
       <<"s", "h", "i", "p", "p", "i", "n", "g">>,
       <<"t", "r", "a", "c", "k", "i", "n", "g">>,
       <<"d", "e", "l", "i", "v", "e", "r", "y">> >>

\* lines 56-66
SUSPICIOUS_DOMAINS ==
    <<
       <<".", "t", "k">>,
       <<".", "m", "l">>,
       <<".", "g", "a">>,
       <<".", "c", "f">>,
       <<".", "g", "q">>,
       <<".", "x", "y", "z">>,
       <<".", "t", "o", "p">>,
       <<".", "c", "l", "i", "c", "k">>,
       <<".", "d", "o", "w", "n", "l", "o", "a", "d">> >>

\* lines 451-460: each word between two \b
urgency_patterns ==
    <<
       <<"u", "r", "g", "e", "n", "t">>,
       <<"i", "m", "m", "e", "d", "i", "a", "t", "e">>,
       <<"a", "s", "a", "p">>,
       <<"n", "o", "w">>,
       <<"e", "x", "p", "i", "r", "e">>,
       <<"l", "i", "m", "i", "t", "e", "d">>,
       <<"a", "c", "t", " ", "n", "o", "w">>,
       <<"v", "e", "r", "i", "f", "y", " ", "n", "o", "w">> >>

\* Chars("...") written out
HTTP == <<"h", "t", "t", "p">>
SCHEME_SEP == <<":", "/", "/">>
HREF == <<"h", "r", "e", "f", "=">>
ANCHOR_OPEN == <<"<", "a">>
ANCHOR_CLOSE == <<"<", "/", "a", ">">>
HTML_OPEN == <<"<", "h", "t", "m", "l">>
BODY_OPEN == <<"<", "b", "o", "d", "y">>

\* t[i:i+len(k)] == k
starts_with(t, i, k) ==
    i >= 1 /\ i + Len(k) - 1 <= Len(t) /\ SubSeq(t, i, i + Len(k) - 1) = k

\* k matches t at position i under re.IGNORECASE
starts_with_ignoring_case(t, i, k) ==
    /\ i >= 1
    /\ i + Len(k) - 1 <= Len(t)
    /\ \A j \in DOMAIN k : matches_ignoring_case(k[j], t[i + j - 1])

\* k in t
contains(t, k) == \E i \in 1..(Len(t) - Len(k) + 1) : starts_with(t, i, k)

\* the positions of t from i on that hold one of the characters of `stops`
stops_from(t, i, stops) == {j \in i..Len(t) : t[j] \in stops}
\* the least element of a non-empty set of positions
least(S) == CHOOSE j \in S : \A k \in S : j <= k
greatest(S) == CHOOSE j \in S : \A k \in S : j >= k

\* EmailAnalyzer._count_hits
count_hits(t, keywords) ==
    Cardinality({k \in DOMAIN keywords : contains(t, keywords[k])})

\* str.count of one character
count_char(t, c) == Cardinality({i \in DOMAIN t : t[i] = c})

\* line 419: [a-zA-Z] | [0-9] | [$-_@.&+] | [!*\\(\\),] | %XX.  The range $-_
\* runs from "$" (0x24) to "_" (0x5F), so it holds "%" and every character
\* listed here.
UrlPunctuation ==
    {"$", "%", "&", "'", "(", ")", "*", "+", ",", "-", ".", "/", ":", ";", "<",
     "=", ">", "?", "@", "[", "\\", "]", "^", "_", "!"}
is_url_char(c) ==
    c \in Range(UpperLetters) \cup Range(LowerLetters) \cup Digits \cup UrlPunctuation

\* Where a match of the URL pattern that starts at position i ends, or 0.
url_end(t, i) ==
    LET sep == IF starts_with(t, i + 4, <<"s">>) THEN i + 5 ELSE i + 4
        first == sep + 3
    IN
    IF ~starts_with(t, i, HTTP) \/ ~starts_with(t, sep, SCHEME_SEP) THEN 0
    ELSE IF first > Len(t) \/ ~is_url_char(t[first]) THEN 0
    ELSE LET breaks == {j \in first..Len(t) : ~is_url_char(t[j])} IN
         IF breaks = {} THEN Len(t) ELSE least(breaks) - 1

\* EmailAnalyzer._extract_urls: re.findall from position i on
RECURSIVE extract_urls_from(_, _)
extract_urls_from(t, i) ==
    LET starts == {j \in i..Len(t) : url_end(t, j) # 0} IN
    IF starts = {} THEN <<>>
    ELSE LET j == least(starts) IN
         <<SubSeq(t, j, url_end(t, j))>> \o extract_urls_from(t, url_end(t, j) + 1)

extract_urls(t) == extract_urls_from(t, 1)

\* line 199: any(domain in url.lower() for domain in SUSPICIOUS_DOMAINS)
has_suspicious_domain(t) ==
    \E k \in DOMAIN SUSPICIOUS_DOMAINS : contains(lower(t), SUSPICIOUS_DOMAINS[k])

\* line 218: len(re.findall(r"<[^>]+>", text)) from position i on
RECURSIVE count_tags_from(_, _)
count_tags_from(t, i) ==
    LET starts == {j \in i..Len(t) : tag_end(t, j) # 0} IN
    IF starts = {} THEN 0
    ELSE 1 + count_tags_from(t, tag_end(t, least(starts)) + 1)

count_tags(t) == count_tags_from(t, 1)

\* \w of one character: "_" and what str.isalnum() holds of, which are the
\* letters, the title-case U+01C5 among them, and the digits, superscript
\* two and Arabic-Indic three among them.  The combining dot above U+0307 and
\* the replacement character U+FFFD are no word characters.
is_word_char(c) ==
    is_upper(c) \/ is_lower(c) \/ c \in Digits \/ c \in {"_", "U+01C5", "U+00B2", "U+0663"}

\* line 425: re.search(r"@([\w\.-]+)", address), group 1, or ""
extract_domain(address) ==
    LET is_domain_char(c) == is_word_char(c) \/ c \in {".", "-"}
        starts == {i \in 1..(Len(address) - 1) :
                      address[i] = "@" /\ is_domain_char(address[i + 1])}
    IN
    IF starts = {} THEN <<>>
    ELSE LET first == least(starts) + 1
             breaks == {j \in first..Len(address) : ~is_domain_char(address[j])}
         IN SubSeq(address, first, IF breaks = {} THEN Len(address) ELSE least(breaks) - 1)

\* EmailAnalyzer._is_domain_suspicious
is_domain_suspicious(address) == has_suspicious_domain(extract_domain(address))

\* \b at the gap between positions p and p + 1
word_boundary(t, p) ==
    (p >= 1 /\ p <= Len(t) /\ is_word_char(t[p]))
        # (p + 1 >= 1 /\ p + 1 <= Len(t) /\ is_word_char(t[p + 1]))

\* the matches of \bword\b in t, ignoring case
count_word(t, word) ==
    Cardinality({i \in DOMAIN t :
        /\ starts_with_ignoring_case(t, i, word)
        /\ word_boundary(t, i - 1)
        /\ word_boundary(t, i + Len(word) - 1)})

RECURSIVE sum_counts(_, _, _)
sum_counts(t, patterns, k) ==
    IF k > Len(patterns) THEN 0
    ELSE count_word(t, patterns[k]) + sum_counts(t, patterns, k + 1)

\* EmailAnalyzer._count_urgency_words
count_urgency_words(t) == sum_counts(t, urgency_patterns, 1)

\* the matches of a pattern [class]{n,}: the maximal runs of the class that
\* are at least n long
count_runs(t, class, n) ==
    Cardinality({i \in DOMAIN t :
        /\ t[i] \in class
        /\ (i = 1 \/ t[i - 1] \notin class)
        /\ i + n - 1 <= Len(t)
        /\ \A j \in i..(i + n - 1) : t[j] \in class})

\* len(text.split())
count_tokens(t) ==
    Cardinality({i \in DOMAIN t : ~is_space(t[i]) /\ (i = 1 \/ is_space(t[i - 1]))})

\* line 472: the long runs of lower-case letters, of capitals and of digits
error_count(t) ==
    count_runs(t, Range(LowerLetters), 15) + count_runs(t, Range(UpperLetters), 5)
        + count_runs(t, Digits, 4)

\* _estimate_spelling_errors without the min(1.0, ...)
estimate_spelling_errors_unclamped(t) ==
    float_mul(int_truediv(error_count(t), Max(1, count_tokens(t))), Literal(10))

\* EmailAnalyzer._estimate_spelling_errors:
\* min(1.0, error_count / max(1, len(text.split())) * 0.1)
estimate_spelling_errors(t) ==
    float_min(One, float_mul(int_truediv(error_count(t), Max(1, count_tokens(t))),
                             Literal(10)))

\* An exception raised where a record was expected.
Raised(exception) == [raised |-> exception]
is_raised(v) == "raised" \in DOMAIN v
\* An exception raised where a text was expected.
RaisedText(exception) == <<exception>>
is_raised_text(t) == t \in {<<"TypeError">>, <<"ValueError">>, <<"LookupError">>}

\* str.split(c): the pieces of t between the occurrences of the character c
split(t, c) ==
    LET cuts == {i \in DOMAIN t : t[i] = c}
        cut(k) == IF k = 0 THEN 0
                  ELSE IF k > Cardinality(cuts) THEN Len(t) + 1
                  ELSE CHOOSE i \in cuts : Cardinality({j \in cuts : j <= i}) = k
    IN  [k \in 1..(Cardinality(cuts) + 1) |-> SubSeq(t, cut(k - 1) + 1, cut(k) - 1)]

HexDigits == Digits \cup {"a", "b", "c", "d", "e", "f", "A", "B", "C", "D", "E", "F"}

\* ipaddress.IPv4Address(t) is an address: four octets between dots, each
\* one to three ASCII digits without a leading zero and at most 255
is_ipv4_address(t) ==
    LET digit(c) == CHOOSE d \in 0..9 : <<"0", "1", "2", "3", "4", "5", "6", "7", "8", "9">>[d + 1] = c
        is_octet(o) ==
            /\ o # <<>>
            /\ Range(o) \subseteq Digits
            /\ Len(o) <= 3
            /\ o = <<"0">> \/ o[1] # "0"
            /\ Len(o) = 3 => 100 * digit(o[1]) + 10 * digit(o[2]) + digit(o[3]) <= 255
    IN  /\ "/" \notin Range(t)
        /\ \E octets \in {split(t, ".")} :
              Len(octets) = 4 /\ \A k \in DOMAIN octets : is_octet(octets[k])

\* ipaddress.IPv6Address._ip_int_from_string takes these parts, the pieces
\* of the address between its colons: at most one of the inner ones is
\* empty, the "::", which stands for one group or more; every other one is
\* a group of one to four hex digits; the first and the last may be empty
\* only next to the "::"; without "::" there are eight groups
are_hextets(parts) ==
    LET is_hextet(h) == h # <<>> /\ Range(h) \subseteq HexDigits /\ Len(h) <= 4 IN
    \E n \in {Len(parts)}, skips \in {{i \in 2..(Len(parts) - 1) : parts[i] = <<>>}} :
        /\ n <= 9
        /\ Cardinality(skips) <= 1
        /\ \E skip \in skips \cup (IF skips = {} THEN {0} ELSE {}) :
            \E parts_hi \in {IF skip = 0 THEN n ELSE IF parts[1] = <<>> THEN skip - 2 ELSE skip - 1},
               parts_lo \in {IF skip = 0 THEN 0 ELSE IF parts[n] = <<>> THEN n - skip - 1 ELSE n - skip} :
                /\ IF skip # 0
                   THEN /\ parts[1] = <<>> => parts_hi = 0
                        /\ parts[n] = <<>> => parts_lo = 0
                        /\ parts_hi + parts_lo <= 7
                   ELSE n = 8 /\ parts[1] # <<>> /\ parts[n] # <<>>
                /\ \A i \in (1..parts_hi) \cup ((n - parts_lo + 1)..n) : is_hextet(parts[i])

\* ipaddress.IPv6Address(t) is an address: an optional scope after "%", not
\* empty and without another "%", and before it three parts or more, the
\* last of which may be an IPv4 address that stands for two groups
is_ipv6_address(t) ==
    \E percents \in {stops_from(t, 1, {"%"})} :
        /\ "/" \notin Range(t)
        /\ percents # {} =>
              /\ least(percents) < Len(t)
              /\ \A i \in percents : i = least(percents)
        /\ \E addr \in {IF percents = {} THEN t ELSE SubSeq(t, 1, least(percents) - 1)} :
            /\ addr # <<>>
            /\ \E written \in {split(addr, ":")} :
                /\ Len(written) >= 3
                /\ IF "." \in Range(written[Len(written)])
                   THEN /\ is_ipv4_address(written[Len(written)])
                        /\ are_hextets(SubSeq(written, 1, Len(written) - 1)
                                          \o << <<"0">>, <<"0">> >>)
                   ELSE are_hextets(written)

\* urllib.parse._check_bracketed_host passes: what stands between "[" and
\* "]" is v, hex digits, a dot and more (an IPvFuture address), or else an
\* IPv6 address
is_bracketed_host(host) ==
    IF starts_with(host, 1, <<"v">>)
    THEN \E dots \in {stops_from(host, 1, {"."})} :
         /\ dots # {}
         /\ \E dot \in {least(dots)} :
            /\ dot >= 3
            /\ dot < Len(host)
            /\ \A i \in 2..(dot - 1) : host[i] \in HexDigits
    ELSE is_ipv6_address(host)

\* urllib.parse._WHATWG_C0_CONTROL_OR_SPACE: the characters U+0000 to U+0020
WHATWG_C0_CONTROL_OR_SPACE ==
    {"U+0000", "U+0001", "U+0002", "U+0003", "U+0004", "U+0005", "U+0006", "U+0007",
     "U+0008", "\t", "\n", "U+000B", "\f", "\r", "U+000E", "U+000F",
     "U+0010", "U+0011", "U+0012", "U+0013", "U+0014", "U+0015", "U+0016", "U+0017",
     "U+0018", "U+0019", "U+001A", "U+001B", "U+001C", "U+001D", "U+001E", "U+001F",
     " "}

\* urlsplit lines "url.lstrip(_WHATWG_C0_CONTROL_OR_SPACE)" and
\* "url.replace(b, '')": leading spaces and C0 controls are dropped, and
\* every tab and line break
without_blanks(url) ==
    SelectSeq([i \in DOMAIN url |->
                  IF \A j \in 1..i : url[j] \in WHATWG_C0_CONTROL_OR_SPACE
                  THEN "\t" ELSE url[i]],
              LAMBDA c : c \notin {"\t", "\r", "\n"})

\* urlsplit: a scheme (an ASCII letter, then ASCII letters, digits, "+", "-",
\* ".", up to the first ":") is cut off
without_scheme(u) ==
    LET letters == Range(UpperLetters) \cup Range(LowerLetters) IN
    CHOOSE rest \in
        { IF /\ colon > 1
             /\ u[1] \in letters
             /\ \A i \in 1..(colon - 1) : u[i] \in letters \cup Digits \cup {"+", "-", "."}
          THEN SubSeq(u, colon + 1, Len(u)) ELSE u :
          colon \in {IF ":" \in Range(u) THEN least(stops_from(u, 1, {":"})) ELSE 0} } : TRUE

\* urllib.parse._splitnetloc: what follows "//" up to the first "/", "?" or
\* "#"
splitnetloc(rest) ==
    IF ~starts_with(rest, 1, <<"/", "/">>) THEN <<>>
    ELSE CHOOSE netloc \in
        { SubSeq(rest, 3, IF ends = {} THEN Len(rest) ELSE least(ends) - 1) :
          ends \in {stops_from(rest, 3, {"/", "?", "#"})} } : TRUE

\* urllib.parse._check_bracketed_netloc passes.  The host and port are what
\* follows the last "@".  With a "[" in them nothing may stand before it,
\* what follows the next "]" is empty or begins with ":", and the host is
\* the text between the two; without a "[" the host is the text before the
\* first ":".  The host must pass _check_bracketed_host in both cases.
check_bracketed_netloc(netloc) ==
    \E ats \in {stops_from(netloc, 1, {"@"})} :
    \E hostname_and_port \in
          {IF ats = {} THEN netloc ELSE SubSeq(netloc, greatest(ats) + 1, Len(netloc))} :
        IF "[" \in Range(hostname_and_port)
        THEN \E bracketed \in {SubSeq(hostname_and_port, 2, Len(hostname_and_port))} :
             \E closes \in {stops_from(bracketed, 1, {"]"})} :
                /\ hostname_and_port[1] = "["
                /\ closes # {} /\ least(closes) < Len(bracketed) =>
                      bracketed[least(closes) + 1] = ":"
                /\ is_bracketed_host(IF closes = {} THEN bracketed
                                      ELSE SubSeq(bracketed, 1, least(closes) - 1))
        ELSE \E colons \in {stops_from(hostname_and_port, 1, {":"})} :
                is_bracketed_host(IF colons = {} THEN hostname_and_port
                                  ELSE SubSeq(hostname_and_port, 1, least(colons) - 1))

\* urllib.parse.urlparse(url).netloc.  It is a ValueError when the netloc has
\* one bracket without the other, when it has both and does not pass
\* _check_bracketed_netloc, and when a character of the netloc turns into
\* "/" under NFKC (the sign U+2100 does).  (Interpreters older than the
\* releases that brought _check_bracketed_netloc looked only at the text
\* between the first "[" and the next "]".)
netloc_of(url) ==
    CHOOSE result \in
        { IF ("[" \in Range(netloc)) # ("]" \in Range(netloc)) THEN RaisedText("ValueError")
          ELSE IF "[" \in Range(netloc) /\ ~check_bracketed_netloc(netloc)
              THEN RaisedText("ValueError")
          ELSE IF "U+2100" \in Range(netloc) THEN RaisedText("ValueError")
          ELSE netloc :
          netloc \in {splitnetloc(without_scheme(without_blanks(url)))} } : TRUE

NoMatch == [end |-> 0, url |-> <<>>, text |-> <<>>]

\* A match of line 438's pattern that starts at position i:
\* <a[^>]+href=["']([^"']+)["'][^>]*>([^<]+)</a>, ignoring case.  [^>]+ is
\* greedy, so of the places where href= may start the last one that lets the
\* rest match is taken; every later piece runs to the first character that
\* stops it.
anchor_match(t, i) ==
    LET quotes == {"\"", "'"}
        \* the rest of the pattern with href= at position h: its two groups
        \* and the position of the final ">", or NoMatch
        rest_at(h) ==
            LET url_first == h + 6
                url_stops == stops_from(t, url_first, quotes)
                url_last == IF url_stops = {} THEN 0 ELSE least(url_stops) - 1
                closers == IF url_last = 0 THEN {} ELSE stops_from(t, url_last + 2, {">"})
                text_first == IF closers = {} THEN 0 ELSE least(closers) + 1
                openers == IF text_first = 0 THEN {} ELSE stops_from(t, text_first, {"<"})
                text_last == IF openers = {} THEN 0 ELSE least(openers) - 1
            IN
            IF /\ starts_with_ignoring_case(t, h, HREF)
               /\ h + 5 <= Len(t) /\ t[h + 5] \in quotes
               /\ url_last >= url_first
               /\ text_first # 0
               /\ text_last >= text_first
               /\ starts_with_ignoring_case(t, text_last + 1, ANCHOR_CLOSE)
            THEN [end  |-> text_last + 4,
                  url  |-> SubSeq(t, url_first, url_last),
                  text |-> SubSeq(t, text_first, text_last)]
            ELSE NoMatch
        \* [^>]+ takes positions i + 2 .. h - 1: at least one, none a ">"
        closers_after == stops_from(t, i + 2, {">"})
        limit == IF closers_after = {} THEN Len(t) ELSE least(closers_after)
        hs == {h \in (i + 3)..limit : rest_at(h).end # 0}
    IN
    IF ~starts_with_ignoring_case(t, i, ANCHOR_OPEN) \/ hs = {} THEN NoMatch
    ELSE rest_at(greatest(hs))

\* re.findall(link_pattern, html_text, re.IGNORECASE) from position i on
RECURSIVE anchors_from(_, _)
anchors_from(t, i) ==
    LET starts == {j \in i..Len(t) : anchor_match(t, j).end # 0} IN
    IF starts = {} THEN <<>>
    ELSE LET m == anchor_match(t, least(starts)) IN
         <<m>> \o anchors_from(t, m.end + 1)

\* lines 440-446 from the k-th match on: "True", "False", or the ValueError
\* of urlparse, which ends the loop
RECURSIVE mismatch_from(_, _)
mismatch_from(matches, k) ==
    IF k > Len(matches) THEN "False"
    ELSE LET url_domain == netloc_of(matches[k].url)
             text_lower == lower(matches[k].text)
         IN
         IF is_raised_text(url_domain) THEN "ValueError"
         ELSE IF contains(text_lower, HTTP) /\ ~contains(text_lower, lower(url_domain))
              THEN "True"
         ELSE mismatch_from(matches, k + 1)

\* EmailAnalyzer._check_link_text_mismatch
check_link_text_mismatch(t) == mismatch_from(anchors_from(t, 1), 1)

\* --------------------------------------------------- the scoring engine
\* lines 264-277
weights ==
    [suspicious_keywords |-> Literal(15),
     trust_keywords      |-> float_neg(Literal(8)),
     url_count           |-> Literal(12),
     suspicious_domains  |-> Literal(20),
     exclamation         |-> Literal(5),
     uppercase_ratio     |-> Literal(8),
     html_ratio          |-> Literal(6),
     link_mismatch       |-> Literal(15),
     suspicious_from     |-> Literal(12),
     reply_different     |-> Literal(10),
     urgency             |-> Literal(10),
     spelling            |-> Literal(5)]

\* min(1.0, count / d) * weight
count_term(count, d, weight) == float_mul(float_min(One, int_truediv(count, d)), weight)

\* line 299 with the deduction's sign lost
trust_deduction_added(f) ==
    float_neg(count_term(f.trust_keyword_count, 3, float_abs(weights.trust_keywords)))

\* line 299 without the min(1.0, ...)
trust_deduction_unsaturated(f) ==
    float_mul(int_truediv(f.trust_keyword_count, 3), float_abs(weights.trust_keywords))

\* line 299: min(1.0, trust_keyword_count / 3.0) * abs(weight)
trust_deduction(f) ==
    count_term(f.trust_keyword_count, 3, float_abs(weights.trust_keywords))

\* lines 293-294 with the term dropped for a suspicious sender
reply_term_unless_suspicious(f) ==
    IF f.reply_to_different /\ ~f.from_domain_suspicious
    THEN weights.reply_different ELSE FloatZero

\* lines 293-294: if features.reply_to_different: score += weight
reply_term(f) == IF f.reply_to_different THEN weights.reply_different ELSE FloatZero

\* lines 281-299: what each statement adds to the local `score`, in the order
\* of the statements.  A statement under an `if` that does not hold adds
\* nothing, as adding 0.0 does; `score -= x` adds -x.
score_terms(f) ==
    << count_term(f.suspicious_keyword_count, 5, weights.suspicious_keywords),
       count_term(f.url_count, 3, weights.url_count),
       count_term(f.suspicious_domain_count, 2, weights.suspicious_domains),
       count_term(f.exclamation_count, 5, weights.exclamation),
       float_mul(float_min(One, float_mul(f.uppercase_ratio, Two)), weights.uppercase_ratio),
       float_mul(float_min(One, float_mul(f.html_ratio, Ten)), weights.html_ratio),
       IF f.link_text_mismatch THEN weights.link_mismatch ELSE FloatZero,
       IF f.from_domain_suspicious THEN weights.suspicious_from ELSE FloatZero,
       reply_term(f),
       count_term(f.urgency_words, 3, weights.urgency),
       float_mul(float_min(One, f.spelling_errors_estimate), weights.spelling),
       float_neg(trust_deduction(f)) >>

\* score += terms[k], for k, k + 1, ... in turn
RECURSIVE add_from(_, _, _)
add_from(score_so_far, terms, k) ==
    IF k > Len(terms) THEN score_so_far
    ELSE add_from(float_add(score_so_far, terms[k]), terms, k + 1)

\* lines 280-299: the local `score` before the clamp
weighted_sum(f) ==
    CHOOSE sum \in {add_from(Literal(30), terms, 1) : terms \in {score_terms(f)}} : TRUE

\* line 302 without the upper clamp
clamp_score_below_only(s) == float_max(FloatZero, s)

\* line 302: score = max(0.0, min(1.0, score))
clamp_score(s) == float_max(FloatZero, float_min(One, s))

Highlight(template, args) == [template |-> template, args |-> args]

\* line 310 with the comparison off by one
many_urls_from_three(f) == f.url_count >= 3

\* line 310: if features.url_count > 3
many_urls(f) == f.url_count > 3

\* lines 304-321: one sentence per condition that holds, appended in order
highlights_of(f) ==
    (IF f.suspicious_keyword_count > 0
        THEN <<Highlight("suspicious_keywords", <<f.suspicious_keyword_count>>)>> ELSE <<>>)
    \o (IF f.suspicious_domain_count > 0
        THEN <<Highlight("suspicious_domains", <<f.suspicious_domain_count>>)>> ELSE <<>>)
    \o (IF many_urls(f)
        THEN <<Highlight("many_urls", <<f.url_count>>)>> ELSE <<>>)
    \o (IF f.link_text_mismatch
        THEN <<Highlight("link_text_mismatch", <<>>)>> ELSE <<>>)
    \o (IF f.from_domain_suspicious
        THEN <<Highlight("from_domain_suspicious", <<>>)>> ELSE <<>>)
    \o (IF f.reply_to_different
        THEN <<Highlight("reply_to_different", <<>>)>> ELSE <<>>)
    \o (IF f.urgency_words > 2
        THEN <<Highlight("urgency", <<>>)>> ELSE <<>>)
    \o (IF f.trust_keyword_count > 0
        THEN <<Highlight("trust_signals", <<f.trust_keyword_count>>)>> ELSE <<>>)

\* schemas.AnalysisInsight; weight is a float
AnalysisInsight(name, value, weight) ==
    [name |-> name, value |-> value, weight |-> weight]

\* lines 343-354 with the two flag records in the other order
flag_insights_swapped(f) ==
    << AnalysisInsight("from_domain_suspicious", IF f.from_domain_suspicious THEN 1 ELSE 0,
                       IF f.from_domain_suspicious THEN Literal(12) ELSE FloatZero),
       AnalysisInsight("link_mismatch", IF f.link_text_mismatch THEN 1 ELSE 0,
                       IF f.link_text_mismatch THEN Literal(15) ELSE FloatZero) >>

\* lines 343-354: the records of the two flags
flag_insights(f) ==
    << AnalysisInsight("link_mismatch", IF f.link_text_mismatch THEN 1 ELSE 0,
                       IF f.link_text_mismatch THEN Literal(15) ELSE FloatZero),
       AnalysisInsight("from_domain_suspicious", IF f.from_domain_suspicious THEN 1 ELSE 0,
                       IF f.from_domain_suspicious THEN Literal(12) ELSE FloatZero) >>

\* the weight min(1.0, count * step) of lines 328, 334, 340 and 358
insight_weight(count, step) == float_min(One, float_mul(float_of_int(count), step))

\* lines 323-361: always the same six records
insights_of(f) ==
    << AnalysisInsight("suspicious_keywords", f.suspicious_keyword_count,
                       insight_weight(f.suspicious_keyword_count, Literal(20))),
       AnalysisInsight("url_count", f.url_count,
                       insight_weight(f.url_count, Literal(15))),
       AnalysisInsight("suspicious_domains", f.suspicious_domain_count,
                       insight_weight(f.suspicious_domain_count, Literal(30))) >>
    \o flag_insights(f)
    \o << AnalysisInsight("trust_signals", f.trust_keyword_count,
                          insight_weight(f.trust_keyword_count, Literal(15))) >>

\* EmailAnalyzer._ml_like_score: (score, highlights, insights), with the
\* pre-clamp value of the local `score` kept beside them
ml_like_score(f) ==
    CHOOSE r \in {
        [raw        |-> raw,
         score      |-> clamp_score(raw),
         highlights |-> highlights_of(f),
         insights   |-> insights_of(f)]
        : raw \in {weighted_sum(f)} } : TRUE

\* line 170 with a strict comparison
verdict_of_strict(s) == IF float_lt(Half, s) THEN "phishing" ELSE "legitimate"

\* line 170: "phishing" if score >= 0.5 else "legitimate"
verdict_of(s) == IF float_le(Half, s) THEN "phishing" ELSE "legitimate"

\* line 179: abs(score - 0.5) * 2
confidence_of(s) == float_mul(float_abs(float_sub(s, Half)), Two)

\* schemas.AnalysisResponse: confidence is validated ge=0.0, le=1.0
AnalysisResponse(verdict, confidence, highlights, insights) ==
    [kind       |-> "response",
     verdict    |-> verdict,
     confidence |-> confidence,
     highlights |-> highlights,
     insights   |-> insights]

\* ------------------------------------------------------------ messages
\* A byte is written as the ASCII character it encodes; "0xFF" is the byte
\* 255.  "U+FFFD" is the replacement character, "U+00FF" the letter y with
\* diaeresis, "U+00A0" the no-break space.

\* what get_content_charset() returns for a part that names no charset
NoCharset == "None"

\* The codec Python has for a charset name as get_content_charset() returns
\* it, in lower case, or "unknown" for a name that has none.  The names of
\* the model are the ones listed here; `charset or "utf-8"` takes the empty
\* name for utf-8 as well.
codec_of(charset) ==
    CASE charset \in {NoCharset, "", "utf-8", "utf8", "utf_8"} -> "utf-8"
      [] charset \in {"ascii", "us-ascii", "646"} -> "ascii"
      [] charset \in {"latin-1", "latin1", "iso-8859-1", "iso8859-1"} -> "latin-1"
      [] charset \in {"cp1252", "windows-1252"} -> "cp1252"
      [] charset \in {"cp437", "ibm437"} -> "cp437"
      [] charset \in {"x-unknown", "unknown-8bit", "utf-9", "none"} -> "unknown"

\* payload.decode(charset or "utf-8", errors="replace"): LookupError for a
\* charset Python has no codec for.  An ASCII byte is its character in each
\* codec; the byte 255 is malformed in utf-8 and ascii, y with diaeresis in
\* latin-1 and cp1252, the no-break space in cp437.
decode_bytes(payload, charset) ==
    IF codec_of(charset) = "unknown" THEN RaisedText("LookupError")
    ELSE [i \in DOMAIN payload |->
             IF payload[i] # "0xFF" THEN payload[i]
             ELSE CASE codec_of(charset) \in {"utf-8", "ascii"} -> "U+FFFD"
                    [] codec_of(charset) \in {"latin-1", "cp1252"} -> "U+00FF"
                    [] codec_of(charset) = "cp437" -> "U+00A0"]

\* email.message.Message, as far as the decoder reads it: what
\* get_content_type() and get_content_charset() return, items(), the bytes of
\* the payload of a part that is not multipart, the sub-parts of one that is,
\* and the defects the parser recorded
Message(content_type, content_charset, headers, payload, parts, defects) ==
    [content_type    |-> content_type,
     content_charset |-> content_charset,
     headers         |-> headers,
     payload         |-> payload,
     parts           |-> parts,
     defects         |-> defects]

NoMessage == [kind |-> "none"]

\* Message.is_multipart(): the payload is a list of sub-parts
is_multipart(m) == m.parts # <<>>

\* Message.get_payload(decode=True): None for a multipart message
get_payload_decoded(m) == IF is_multipart(m) THEN None ELSE m.payload

\* the truth value of what get_payload(decode=True) returned: None and b""
\* are false
is_truthy(payload) == payload # None /\ payload # <<>>

\* the part's payload, decoded with its charset
decode_part(part) == decode_bytes(part.payload, part.content_charset)

\* Message.walk(): the message, then each sub-part's walk, in order
RECURSIVE walk(_)
RECURSIVE walk_each(_, _)
walk(m) == <<m>> \o walk_each(m.parts, 1)
walk_each(parts, k) ==
    IF k > Len(parts) THEN <<>> ELSE walk(parts[k]) \o walk_each(parts, k + 1)

\* lines 379-382 with the test of line 381 left out: every text/plain part
\* of the walk
plain_parts_with_empty(m) ==
    SelectSeq(walk(m), LAMBDA part : part.content_type = "text/plain")

\* lines 379-382: the parts of the walk for which the loop returns
plain_parts(m) ==
    SelectSeq(walk(m), LAMBDA part :
        part.content_type = "text/plain" /\ is_truthy(get_payload_decoded(part)))

\* EmailAnalyzer._extract_body: a text, the LookupError of decode, or, from
\* line 393 for a multipart message, the list of its sub-parts
extract_body(m) ==
    IF is_multipart(m) /\ plain_parts(m) # <<>> THEN decode_part(plain_parts(m)[1])
    ELSE IF is_multipart(m) /\ is_truthy(get_payload_decoded(m.parts[1]))
        THEN decode_part(m.parts[1])
    ELSE IF is_truthy(get_payload_decoded(m)) THEN decode_part(m)
    ELSE IF is_multipart(m) THEN PartsList
    ELSE <<>>

\* EmailAnalyzer._extract_html_body
extract_html_body(m) ==
    LET html_parts == SelectSeq(walk(m), LAMBDA part :
            part.content_type = "text/html" /\ is_truthy(get_payload_decoded(part)))
    IN IF is_multipart(m) /\ html_parts # <<>> THEN decode_part(html_parts[1]) ELSE None

SUBJECT == <<"S", "u", "b", "j", "e", "c", "t">>
FROM == <<"F", "r", "o", "m">>
REPLY_TO == <<"R", "e", "p", "l", "y", "-", "T", "o">>
TO == <<"T", "o">>

Header(key, value) == [key |-> key, value |-> value]

\* Message.get(name): the value of the first header of that name, whatever
\* its case, or None
get(m, name) ==
    LET hits == {i \in DOMAIN m.headers : lower(m.headers[i].key) = lower(name)} IN
    IF hits = {} THEN None ELSE m.headers[least(hits)].value

\* Message.get_all(name, [])
get_all(m, name) ==
    LET hits == SelectSeq(m.headers, LAMBDA h : lower(h.key) = lower(name)) IN
    [i \in DOMAIN hits |-> hits[i].value]

\* str() of a header value: a Header object prints its undecodable bytes as
\* replacement characters
str_of(value) == IF value = HeaderObject THEN <<"U+FFFD">> ELSE value

\* EmailAnalyzer._serialize_headers from the k-th header on
RECURSIVE serialize_headers_from(_, _)
serialize_headers_from(m, k) ==
    IF k > Len(m.headers) THEN <<>>
    ELSE (IF k > 1 THEN <<"\n">> ELSE <<>>)
         \o m.headers[k].key \o <<":", " ">> \o str_of(m.headers[k].value)
         \o serialize_headers_from(m, k + 1)

\* EmailAnalyzer._serialize_headers
serialize_headers(m) == serialize_headers_from(m, 1)

CONTENT_TYPE == <<"C", "o", "n", "t", "e", "n", "t", "-", "T", "y", "p", "e">>

\* the characters of the content types, charsets and boundaries of the model
spelling(name) ==
    CASE name = "text/plain" -> <<"t", "e", "x", "t", "/", "p", "l", "a", "i", "n">>
      [] name = "text/html" -> <<"t", "e", "x", "t", "/", "h", "t", "m", "l">>
      [] name = "multipart/mixed" -> <<"m", "u", "l", "t", "i", "p", "a", "r", "t", "/", "m", "i", "x", "e", "d">>
      [] name = "multipart/alternative" -> <<"m", "u", "l", "t", "i", "p", "a", "r", "t", "/", "a", "l", "t", "e", "r", "n", "a", "t", "i", "v", "e">>
      [] name = "latin-1" -> <<"l", "a", "t", "i", "n", "-", "1">>
      [] name = "us-ascii" -> <<"u", "s", "-", "a", "s", "c", "i", "i">>
      [] name = "cp437" -> <<"c", "p", "4", "3", "7">>
      [] name = "x-unknown" -> <<"x", "-", "u", "n", "k", "n", "o", "w", "n">>
      [] name = "b0" -> <<"b", "0">>
      [] name = "b1" -> <<"b", "1">>

\* a part that is not multipart, as the parser returns it: items() has a
\* Content-Type item unless the part is of the default type and names no
\* charset
Leaf(content_type, content_charset, payload) ==
    Message(content_type, content_charset,
            IF content_type = "text/plain" /\ content_charset = NoCharset THEN <<>>
            ELSE <<Header(CONTENT_TYPE,
                          spelling(content_type)
                            \o (IF content_charset = NoCharset THEN <<>>
                                ELSE <<";", " ", "c", "h", "a", "r", "s", "e", "t", "=">> \o spelling(content_charset)))>>,
            payload, <<>>, <<>>)

\* a multipart part or message, as the parser returns it: its Content-Type
\* item names the boundary between its parts
Multipart(content_type, boundary, parts) ==
    Message(content_type, NoCharset,
            <<Header(CONTENT_TYPE,
                     spelling(content_type) \o <<";", " ", "b", "o", "u", "n", "d", "a", "r", "y", "=", "\"">>
                       \o spelling(boundary) \o <<"\"">>)>>,
            <<>>, parts, <<>>)

\* the message with these header lines before its Content-Type line
with_headers(m, headers) == [m EXCEPT !.headers = headers \o @]

\* the bytes of a header value: a Header object is what the parser makes of
\* a value with a byte outside ASCII
value_bytes(value) == IF value = HeaderObject THEN <<"0xFF">> ELSE value

\* the header lines of a message from the k-th on, each ended by a line feed
RECURSIVE header_bytes_from(_, _)
header_bytes_from(headers, k) ==
    IF k > Len(headers) THEN <<>>
    ELSE headers[k].key \o <<":", " ">> \o value_bytes(headers[k].value) \o <<"\n">>
         \o header_bytes_from(headers, k + 1)

\* Message.get_boundary(): the text between the quotes of the Content-Type
boundary_of(m) == split(get(m, CONTENT_TYPE), "\"")[2]

\* The bytes email.message_from_bytes reads the message from: the header
\* lines, an empty line, and the payload; for a multipart message each part
\* after a line "--boundary" and before a line feed, then "--boundary--".
RECURSIVE bytes_of(_)
RECURSIVE parts_bytes_from(_, _, _)
bytes_of(m) ==
    header_bytes_from(m.headers, 1) \o <<"\n">>
      \o (IF is_multipart(m) THEN parts_bytes_from(m.parts, boundary_of(m), 1)
          ELSE m.payload)
parts_bytes_from(parts, boundary, k) ==
    IF k > Len(parts) THEN <<"-", "-">> \o boundary \o <<"-", "-", "\n">>
    ELSE <<"-", "-">> \o boundary \o <<"\n">> \o bytes_of(parts[k]) \o <<"\n">>
         \o parts_bytes_from(parts, boundary, k + 1)

\* the contents of an uploaded file: bytes that spell no header ("garbage"),
\* or the bytes of a message ("rfc822"), written as the message they spell.
\* Garbage is bytes whose first line that begins with neither a space, a
\* tab nor "From " is no header line, that is, does not begin with
\* printable characters other than space and ":" followed by ":".  After
\* the closing line of a multipart message a file may go on with an
\* epilogue, which the parser keeps apart from every part's payload:
\* `epilogue` bytes "a".
Garbage(bytes) == [kind |-> "garbage", bytes |-> bytes]
Rfc822WithEpilogue(m, epilogue) == [kind |-> "rfc822", message |-> m, epilogue |-> epilogue]
Rfc822(m) == Rfc822WithEpilogue(m, 0)

\* len(contents)
size_of(data) ==
    IF data.kind = "garbage" THEN Len(data.bytes)
    ELSE Len(bytes_of(data.message)) + data.epilogue

\* the positions at which the lines of the bytes begin; a line ends with
\* "\n", with "\r" or with "\r\n"
line_starts(bytes) ==
    {i \in 1..Len(bytes) :
        \/ i = 1
        \/ bytes[i - 1] = "\n"
        \/ bytes[i - 1] = "\r" /\ bytes[i] # "\n"}

\* the envelope line of a mailbox file begins with these bytes
UNIXFROM == <<"F", "r", "o", "m", " ">>

\* email.feedparser.headerRE matches the line that begins at i, which is no
\* header line: it begins with a space, a tab or "From "
is_header_like(bytes, i) == bytes[i] \in {" ", "\t"} \/ starts_with(bytes, i, UNIXFROM)

\* FeedParser._parse_headers on lines without a header among them, from the
\* line that begins at i to the one that begins at `last`: a line that
\* begins with a space or tab continues no header, which is a defect; a
\* "From " line is the envelope line when it is the first line, is handed
\* back to the body when it is the last, and is a defect otherwise
RECURSIVE header_defects_from(_, _, _)
header_defects_from(bytes, i, last) ==
    IF i > last THEN <<>>
    ELSE (IF bytes[i] \in {" ", "\t"} THEN <<"FirstHeaderLineIsContinuationDefect">>
          ELSE IF i = 1 \/ i = last THEN <<>>
          ELSE <<"MisplacedEnvelopeHeaderDefect">>)
         \o header_defects_from(bytes, least({j \in line_starts(bytes) \cup {last + 1} : j > i}),
                                last)

\* email.message_from_bytes: it raises for no input.  Of bytes that spell no
\* header the parser takes the leading lines that begin with a space, a tab
\* or "From " for header lines, and what follows them for the body of a
\* message without headers, of the default type text/plain.  The line the
\* body begins with is dropped when it is empty; otherwise a
\* MissingHeaderBodySeparatorDefect is recorded before the defects of the
\* lines taken for headers.
message_from_bytes(data) ==
    IF data.kind # "garbage" THEN data.message
    ELSE CHOOSE m \in
        { Message("text/plain", NoCharset, <<>>,
                  (IF last > 1 /\ starts_with(bytes, last, UNIXFROM)
                     THEN SubSeq(bytes, last, stop - 1) ELSE <<>>)
                    \o (IF stop > Len(bytes) THEN <<>>
                        ELSE IF bytes[stop] \in {"\n", "\r"}
                          THEN SubSeq(bytes,
                                      least({j \in line_starts(bytes) \cup {Len(bytes) + 1} :
                                               j > stop}),
                                      Len(bytes))
                        ELSE SubSeq(bytes, stop, Len(bytes))),
                  <<>>,
                  (IF stop <= Len(bytes) /\ bytes[stop] \notin {"\n", "\r"}
                     THEN <<"MissingHeaderBodySeparatorDefect">> ELSE <<>>)
                    \o (IF last = 0 THEN <<>> ELSE header_defects_from(bytes, 1, last))) :
          bytes \in {data.bytes},
          stop \in {least({i \in line_starts(data.bytes) : ~is_header_like(data.bytes, i)}
                            \cup {Len(data.bytes) + 1})},
          last \in {greatest({i \in line_starts(data.bytes) :
                                 \A j \in line_starts(data.bytes) :
                                     j <= i => is_header_like(data.bytes, j)}
                               \cup {0})} } : TRUE

\* the dataclass EmailContent
EmailContent(subject, body, raw_headers, from_address, reply_to, to_addresses, html_body) ==
    [subject      |-> subject,
     body         |-> body,
     raw_headers  |-> raw_headers,
     from_address |-> from_address,
     reply_to     |-> reply_to,
     to_addresses |-> to_addresses,
     html_body    |-> html_body]

NoContent == [kind |-> "none"]

\* -------------------------------------------------- the file endpoint
MAX_FILE_SIZE_BYTES == 5 * 1024 * 1024
ACCEPTED_CONTENT_TYPES == {"message/rfc822", "text/plain", "application/octet-stream"}

\* fastapi.HTTPException
HTTPException(status_code, detail) == [status_code |-> status_code, detail |-> detail]
NoException == [kind |-> "none"]

\* An UploadFile: its content type, len(contents), and the contents as far
\* as the decoder tells them apart.
UploadFile(content_type, data) ==
    [content_type |-> content_type, size |-> size_of(data), contents |-> data]
NoUpload == [kind |-> "none"]
NoBytes == [kind |-> "none"]

\* ------------------------------------------------- inputs of the engine
\* Count features are sampled at 0, just below the point at which their
\* signal saturates, and at MaxCount.
Samples(sat) == {0, sat - 1, MaxCount}
\* The URL count with the count of URLs on a suspicious domain, which is at
\* most the URL count: none, three with one, MaxCount with all of them.
UrlCounts == {<<0, 0>>, <<3, 1>>, <<MaxCount, MaxCount>>}
\* Ratio features are sampled at 0, 1/RatioDen and 1.
Ratios == {int_truediv(k, RatioDen) : k \in {0, 1, RatioDen}}

\* the fields the scoring engine never reads, varied together
Unscored ==
    { [question_count |-> 0, body_length |-> 0,  subject_length |-> 0, has_html |-> FALSE],
      [question_count |-> 2, body_length |-> 40, subject_length |-> 7, has_html |-> TRUE] }

\* The uppercase ratio, the HTML ratio and the unscored fields of a sampled
\* record: each ratio takes each of its samples, and the unscored fields
\* vary where both ratios are 0.
Shapes ==
    { [uppercase_ratio |-> up, html_ratio |-> html, unscored |-> u] :
        up \in Ratios, html \in Ratios, u \in Unscored }

SampledShapes ==
    { s \in Shapes :
        LET zero == [question_count |-> 0, body_length |-> 0,
                     subject_length |-> 0, has_html |-> FALSE]
            lo == int_truediv(1, RatioDen)
        IN  \/ s.uppercase_ratio = FloatZero /\ s.html_ratio = FloatZero
            \/ /\ s.unscored = zero
               /\ <<s.uppercase_ratio, s.html_ratio>>
                     \in {<<FloatZero, lo>>, <<lo, One>>, <<One, FloatZero>>} }

EmailFeatures(kw, tr, urls, dom, ex, up, html, link, from, reply, urg, sp, u) ==
    [suspicious_keyword_count |-> kw,
     trust_keyword_count      |-> tr,
     url_count                |-> urls,
     suspicious_domain_count  |-> dom,
     exclamation_count        |-> ex,
     question_count           |-> u.question_count,
     uppercase_ratio          |-> up,
     body_length              |-> u.body_length,
     subject_length           |-> u.subject_length,
     has_html                 |-> u.has_html,
     html_ratio               |-> html,
     link_text_mismatch       |-> link,
     from_domain_suspicious   |-> from,
     reply_to_different       |-> reply,
     urgency_words            |-> urg,
     spelling_errors_estimate |-> sp]

\* `value or ""` for a value that is None or a text
or_empty(value) == IF value = None THEN <<>> ELSE value

\* EmailAnalyzer._extract_features: the record, or the exception the first
\* failing line raises (ValueError from urlparse at line 222, TypeError from
\* re.search on a Header object at lines 225-229)
extract_features(email, body, subject) ==
    LET both == body \o <<" ">> \o subject
        original_body == or_empty(email.body)
        original_subject == or_empty(email.subject)
        urls == extract_urls(original_body)
        text_sample == SubSeq(original_body, 1, Min(1000, Len(original_body)))
        body_length == Len(original_body)
        link_text_mismatch == check_link_text_mismatch(original_body)
        from_address == or_empty(email.from_address)
        unscored ==
            [question_count |-> count_char(original_body, "?")
                                  + count_char(original_subject, "?"),
             body_length    |-> body_length,
             subject_length |-> Len(original_subject),
             has_html       |-> email.html_body # None
                                  \/ contains(lower(original_body), HTML_OPEN)]
    IN
    IF link_text_mismatch = "ValueError" THEN Raised("ValueError")
    ELSE IF ~is_str(from_address) THEN Raised("TypeError")
    ELSE IF email.reply_to # None /\ email.from_address # None
            /\ ~is_str(email.reply_to) THEN Raised("TypeError")
    ELSE EmailFeatures(
        count_hits(both, SUSPICIOUS_KEYWORDS),
        count_hits(both, TRUST_SIGNAL_KEYWORDS),
        Len(urls),
        Cardinality({i \in DOMAIN urls : has_suspicious_domain(urls[i])}),
        count_char(original_body, "!") + count_char(original_subject, "!"),
        IF text_sample # <<>>
            THEN int_truediv(Cardinality({i \in DOMAIN text_sample : is_upper(text_sample[i])}),
                             Len(text_sample))
            ELSE FloatZero,
        IF body_length > 0 THEN int_truediv(count_tags(original_body), Max(1, body_length))
            ELSE FloatZero,
        link_text_mismatch = "True",
        is_domain_suspicious(from_address),
        /\ email.reply_to # None
        /\ email.from_address # None
        /\ extract_domain(email.reply_to) # extract_domain(email.from_address),
        count_urgency_words(both),
        estimate_spelling_errors(body),
        unscored)

NoFeatures == [kind |-> "none"]

\* schemas.EmailMetadata as _run_analysis fills it (lines 171-176)
EmailMetadata(subject, from_address, reply_to, to_addresses) ==
    [subject |-> subject, from_address |-> from_address,
     reply_to |-> reply_to, to_addresses |-> or_empty(to_addresses)]

\* pydantic accepts the EmailMetadata of lines 171-176: subject,
\* from_address and reply_to are Optional[str], to_addresses is List[str].
\* A Header object is no str.
is_valid_metadata(email) ==
    /\ email.subject = None \/ is_str(email.subject)
    /\ email.from_address = None \/ is_str(email.from_address)
    /\ email.reply_to = None \/ is_str(email.reply_to)
    /\ \A i \in DOMAIN or_empty(email.to_addresses) : is_str(email.to_addresses[i])
NoScore == FloatZero

\* -------------------------------------------------------------- actions
\* The scoring engine alone: any EmailFeatures record with counts >= 0 and
\* ratios in [0,1]; a URL with a suspicious domain is a URL.
InitScore ==
    /\ pc = "features"
    /\ \E kw \in Samples(5), tr \in Samples(3), urls \in UrlCounts,
          ex \in {0, MaxCount}, shape \in SampledShapes,
          link \in BOOLEAN, from \in BOOLEAN, reply \in BOOLEAN,
          urg \in {0, 2, 3}, sp \in {FloatZero, One} :
        features = EmailFeatures(kw, tr, urls[1], urls[2], ex,
                                 shape.uppercase_ratio, shape.html_ratio,
                                 link, from, reply, urg, sp, shape.unscored)
    /\ raw_score = NoScore
    /\ score = NoScore
    /\ response = NoResponse
    /\ calls = <<>>
    /\ analyzer = new_EmailAnalyzer
    /\ text = <<>> /\ normalized = <<>> /\ renormalized = <<>>
    /\ upload = NoUpload /\ contents = NoBytes /\ message = NoMessage
    /\ content = NoContent /\ error = NoException

\* EmailAnalyzer._run_analysis from line 168 on: score the features, derive
\* the verdict, build the metadata, which pydantic validates, and the
\* response with the confidence.  Where the engine is given the features
\* alone there is no content and no metadata.
run_analysis ==
    /\ pc = "features"
    /\ \E r \in {ml_like_score(features)} :
        /\ raw_score' = r.raw
        /\ score' = r.score
        /\ IF content # NoContent /\ ~is_valid_metadata(content)
           THEN /\ error' = HTTPException(400, "ValidationError")
                /\ response' = response
           ELSE /\ error' = error
                /\ response' = AnalysisResponse(verdict_of(r.score), confidence_of(r.score),
                                                r.highlights, r.insights)
    /\ pc' = "done"
    /\ UNCHANGED <<features, norm_vars, upload, contents, message, content, call_vars>>

NextScore == run_analysis

SpecScore == InitScore /\ [][NextScore]_vars
\* ------------------------------------------------- the scoring engine's claims
\* 0.0 <= x <= 1.0
in_unit(x) == float_le(FloatZero, x) /\ float_le(x, One)

\* C1: for every EmailFeatures record with counts >= 0 and ratios in [0,1],
\* the score the engine returns is in [0,1], and the confidence of the
\* response, |score - 0.5| * 2, is in [0,1].
C1_ScoreAndConfidenceInUnit ==
    pc = "done" =>
        /\ in_unit(score)
        /\ in_unit(response.confidence)
        /\ response.confidence = float_mul(float_abs(float_sub(score, Half)), Two)

\* the weighted sum passed 1.0, the clamp cut it and the confidence is 1
C1_Witness ==
    /\ pc = "done"
    /\ float_lt(One, raw_score)
    /\ score = One
    /\ response.confidence = One

\* C2: the verdict of a response is "phishing" if and only if the score is
\* >= 0.5, and "legitimate" otherwise; a score of exactly 0.5 is phishing
\* with confidence 0.
C2_VerdictIffScoreAtLeastHalf ==
    pc = "done" =>
        /\ response.verdict \in {"phishing", "legitimate"}
        /\ (response.verdict = "phishing") <=> ~float_lt(score, Decimal(1, 2))
        /\ score = Decimal(1, 2) =>
              (response.verdict = "phishing" /\ response.confidence = FloatZero)

\* a response whose score is exactly 0.5: the reply-to differs and there are
\* three urgency words, 0.3 + 0.1 + 0.1
C2_Witness ==
    /\ pc = "done"
    /\ features.reply_to_different
    /\ features.urgency_words = 3
    /\ score = Decimal(1, 2)
    /\ response.verdict = "phishing"

\* a response whose score is the double next below 0.5, 0.49999999999999994:
\* 0.3 + 0.15 + 0.05 in doubles is not 0.5, and the verdict is "legitimate"
C2_WitnessNextBelow ==
    /\ pc = "done"
    /\ features.suspicious_keyword_count >= 5
    /\ features.exclamation_count >= 5
    /\ score = Float(0, <<16383, 16383, 16383, 2047>>, -54)
    /\ response.verdict = "legitimate"
    /\ response.confidence # FloatZero

\* [flag] as 0.0 or 1.0
C3_Flag(b) == IF b THEN One ELSE FloatZero

\* the sum of the claim, evaluated from left to right in doubles
C3_Sum(f) ==
    LET t0 == Decimal(30, 100)
        t1 == float_add(t0, float_mul(Decimal(15, 100),
                  float_min(One, int_truediv(f.suspicious_keyword_count, 5))))
        t2 == float_add(t1, float_mul(Decimal(12, 100),
                  float_min(One, int_truediv(f.url_count, 3))))
        t3 == float_add(t2, float_mul(Decimal(20, 100),
                  float_min(One, int_truediv(f.suspicious_domain_count, 2))))
        t4 == float_add(t3, float_mul(Decimal(5, 100),
                  float_min(One, int_truediv(f.exclamation_count, 5))))
        t5 == float_add(t4, float_mul(Decimal(8, 100),
                  float_min(One, float_mul(f.uppercase_ratio, Two))))
        t6 == float_add(t5, float_mul(Decimal(6, 100),
                  float_min(One, float_mul(f.html_ratio, Ten))))
        t7 == float_add(t6, float_mul(Decimal(15, 100), C3_Flag(f.link_text_mismatch)))
        t8 == float_add(t7, float_mul(Decimal(12, 100), C3_Flag(f.from_domain_suspicious)))
        t9 == float_add(t8, float_mul(Decimal(10, 100), C3_Flag(f.reply_to_different)))
        t10 == float_add(t9, float_mul(Decimal(10, 100),
                  float_min(One, int_truediv(f.urgency_words, 3))))
        t11 == float_add(t10, float_mul(Decimal(5, 100),
                  float_min(One, f.spelling_errors_estimate)))
    IN  float_sub(t11, float_mul(Decimal(8, 100),
                  float_min(One, int_truediv(f.trust_keyword_count, 3))))

\* C3: the score is the clamp to [0,1] of 0.30 + 0.15*min(1,suspKw/5)
\* + 0.12*min(1,urls/3) + 0.20*min(1,suspDomainUrls/2) + 0.05*min(1,excl/5)
\* + 0.08*min(1,upperRatio*2) + 0.06*min(1,htmlRatio*10) + 0.15*[linkMismatch]
\* + 0.12*[senderSuspicious] + 0.10*[replyToDiffers] + 0.10*min(1,urgency/3)
\* + 0.05*min(1,spelling) - 0.08*min(1,trustKw/3), the terms added in this
\* order in doubles; the question count, the two lengths and the has-HTML
\* flag are no part of it.
C3_ScoreIsClampedWeightedSum ==
    pc = "done" =>
        LET sum == C3_Sum(features)
        IN  score = IF float_lt(sum, FloatZero) THEN FloatZero
                    ELSE IF float_lt(One, sum) THEN One
                    ELSE sum

\* a scored record with a trust deduction, a sum the clamp leaves alone and
\* non-zero values in the fields the engine does not read
C3_Witness ==
    /\ pc = "done"
    /\ features.trust_keyword_count > 0
    /\ features.question_count > 0
    /\ features.has_html
    /\ features.suspicious_keyword_count = 4
    /\ raw_score = score
    /\ float_lt(score, Half)

\* C4: the insights of a result are exactly six records, named in this order
\* suspicious_keywords, url_count, suspicious_domains, link_mismatch,
\* from_domain_suspicious, trust_signals, each with the raw feature value
\* (the count, or 0/1 for the two flags).
C4_SixInsightsInOrder ==
    pc = "done" =>
        LET I == response.insights IN
        /\ Len(I) = 6
        /\ [i \in 1..6 |-> I[i].name]
             = <<"suspicious_keywords", "url_count", "suspicious_domains",
                 "link_mismatch", "from_domain_suspicious", "trust_signals">>
        /\ [i \in 1..6 |-> I[i].value]
             = <<features.suspicious_keyword_count, features.url_count,
                 features.suspicious_domain_count,
                 IF features.link_text_mismatch THEN 1 ELSE 0,
                 IF features.from_domain_suspicious THEN 1 ELSE 0,
                 features.trust_keyword_count>>

\* a result whose two flag insights differ and whose counts are not all zero
C4_Witness ==
    /\ pc = "done"
    /\ features.link_text_mismatch
    /\ ~features.from_domain_suspicious
    /\ features.url_count > features.suspicious_domain_count
    /\ features.suspicious_domain_count > 0
    /\ Len(response.insights) = 6

\* the eight sentences, in the order of the claim
C5_Order ==
    <<"suspicious_keywords", "suspicious_domains", "many_urls", "link_text_mismatch",
      "from_domain_suspicious", "reply_to_different", "urgency", "trust_signals">>

\* the condition of the k-th sentence, as the claim states it
C5_Holds(f, k) ==
    CASE k = 1 -> f.suspicious_keyword_count > 0
      [] k = 2 -> f.suspicious_domain_count > 0
      [] k = 3 -> f.url_count > 3
      [] k = 4 -> f.link_text_mismatch
      [] k = 5 -> f.from_domain_suspicious
      [] k = 6 -> f.reply_to_different
      [] k = 7 -> f.urgency_words > 2
      [] k = 8 -> f.trust_keyword_count > 0

\* C5: the highlights hold exactly one sentence for each condition that
\* holds and none for one that does not, in the relative order: suspicious
\* keywords > 0; suspicious domains > 0; URLs > 3; link/text mismatch; sender
\* domain suspicious; reply-to differs; urgency words > 2; trust keywords > 0.
C5_HighlightsPerCondition ==
    pc = "done" =>
        LET H == response.highlights
            Rank(t) == CHOOSE k \in 1..8 : C5_Order[k] = t
        IN
        /\ \A i \in DOMAIN H : \E k \in 1..8 : C5_Order[k] = H[i].template
        /\ \A k \in 1..8 :
              Cardinality({i \in DOMAIN H : H[i].template = C5_Order[k]})
                = IF C5_Holds(features, k) THEN 1 ELSE 0
        /\ \A i, j \in DOMAIN H : i < j => Rank(H[i].template) < Rank(H[j].template)

\* exactly three URLs, so no sentence about many URLs, among five others
C5_Witness ==
    /\ pc = "done"
    /\ features.url_count = 3
    /\ features.urgency_words = 3
    /\ Len(response.highlights) = 7

\* every condition holds; none holds
C5_WitnessAll == pc = "done" /\ Len(response.highlights) = 8
C5_WitnessNone == pc = "done" /\ Len(response.highlights) = 0
\* the base 0.3 less the largest trust deduction 0.08, in doubles:
\* 0.21999999999999997, the double next below 0.22
C14_Least == float_sub(Decimal(3, 10), Decimal(8, 100))

\* C14 (as the code has it): for every EmailFeatures record with counts and
\* ratios >= 0, the score sum before the clamp is at least 0.3 - 0.08 as
\* doubles subtract them, 0.21999999999999997, which is less than 0.22; so
\* the lower clamp at 0 never takes effect, the final score is in
\* [0.21999999999999997, 1], and a "legitimate" verdict never carries a
\* confidence above 0.56.
C14_ScoreAtLeastBaseLessTrustInDoubles ==
    pc = "done" =>
        /\ float_le(C14_Least, raw_score)
        /\ score = float_min(One, raw_score)
        /\ float_le(C14_Least, score)
        /\ float_le(score, One)
        /\ response.verdict = "legitimate" =>
              float_le(response.confidence, Decimal(56, 100))

\* the least score: three or more trust keywords and no other signal give
\* 0.21999999999999997, a "legitimate" verdict and the confidence 0.56
C14_Witness ==
    /\ pc = "done"
    /\ features.trust_keyword_count >= 3
    /\ raw_score = C14_Least
    /\ float_lt(raw_score, Decimal(22, 100))
    /\ score = raw_score
    /\ response.verdict = "legitimate"
    /\ response.confidence = Decimal(56, 100)

\* a "phishing" verdict with confidence 1
C14_WitnessPhishing ==
    /\ pc = "done"
    /\ response.verdict = "phishing"
    /\ response.confidence = One

\* C14 (as stated): for every EmailFeatures record with counts and ratios
\* >= 0, the score sum before the clamp is at least 0.22, the final score is
\* in [0.22, 1], and a "legitimate" verdict never carries a confidence above
\* 0.56.
C14_ScoreAtLeastBaseLessTrust ==
    pc = "done" =>
        /\ float_le(Decimal(22, 100), raw_score)
        /\ float_le(Decimal(22, 100), score)
        /\ float_le(score, One)
        /\ response.verdict = "legitimate" =>
              float_le(response.confidence, Decimal(56, 100))

\* ------------------------------------------------------- the normalizer
\* The characters of the texts handed to the normalizer: the two brackets, a
\* letter, a capital, the capital I with dot above, which lower-cases to two
\* characters, a space and a vertical tab.
NormAlphabet == {"<", ">", "a", "A", "U+0130", " ", "U+000B"}

InitNorm ==
    /\ pc = "text"
    /\ text \in TextsUpTo(NormAlphabet, MaxTextLen)
    /\ normalized = <<>>
    /\ renormalized = <<>>
    /\ features = NoFeatures
    /\ raw_score = NoScore
    /\ score = NoScore
    /\ response = NoResponse
    /\ calls = <<>>
    /\ analyzer = new_EmailAnalyzer
    /\ upload = NoUpload /\ contents = NoBytes /\ message = NoMessage
    /\ content = NoContent /\ error = NoException

\* lines 160-161: a text is normalized
normalize ==
    /\ pc = "text"
    /\ normalized' = normalize_text(text)
    /\ pc' = "normalized"
    /\ UNCHANGED <<text, renormalized, features, raw_score, score, response, file_vars, call_vars>>

\* the result is handed to _normalize_text again, as the body of a later call
normalize_again ==
    /\ pc = "normalized"
    /\ renormalized' = normalize_text(normalized)
    /\ pc' = "renormalized"
    /\ UNCHANGED <<text, normalized, features, raw_score, score, response, file_vars, call_vars>>

NextNorm == normalize \/ normalize_again

SpecNorm == InitNorm /\ [][NextNorm]_vars

\* a substring "<", one or more characters other than ">", ">"
C6_HasTag(t) ==
    \E i, j \in DOMAIN t :
        /\ j >= i + 2
        /\ t[i] = "<"
        /\ t[j] = ">"
        /\ \A k \in (i + 1)..(j - 1) : t[k] # ">"

\* C6: normalize(normalize(x)) = normalize(x) for every text x, and
\* normalize(x) is lower-case, has no leading, trailing or consecutive
\* whitespace, and holds no substring "<" non-">"-characters ">".
C6_NormalizeIdempotentAndClean ==
    (pc = "normalized" =>
        /\ lower(normalized) = normalized
        /\ \A i \in DOMAIN normalized : ~is_upper(normalized[i])
        /\ normalized # <<>> =>
              ~is_space(normalized[1]) /\ ~is_space(normalized[Len(normalized)])
        /\ \A i \in 1..(Len(normalized) - 1) :
              ~(is_space(normalized[i]) /\ is_space(normalized[i + 1]))
        /\ \A i \in DOMAIN normalized : is_space(normalized[i]) => normalized[i] = " "
        /\ ~C6_HasTag(normalized))
    /\ (pc = "renormalized" => renormalized = normalized)

\* a text with a tag, a capital I with dot above and a vertical tab was
\* normalized twice; the capital became two characters
C6_Witness ==
    /\ pc = "renormalized"
    /\ C6_HasTag(text)
    /\ \E i \in DOMAIN text : text[i] = "U+0130"
    /\ \E i \in DOMAIN text : text[i] = "U+000B"
    /\ \E i \in 1..(Len(normalized) - 1) :
          normalized[i] = "i" /\ normalized[i + 1] = "U+0307"
    /\ renormalized = normalized

\* --------------------------------------------- inputs of the file endpoint
\* The most sub-parts a multipart message has, and the most a multipart
\* sub-part has.
MaxParts == 2
MaxNestedParts == 1

\* text/plain and text/html parts, empty and not, in the default charset
CoreLeaves ==
    {Leaf("text/plain", NoCharset, payload) : payload \in {<<>>, <<"a">>, <<"b">>}}
    \cup {Leaf("text/html", NoCharset, payload) : payload \in {<<>>, <<"h">>}}
\* and parts with a byte outside ASCII, in charsets known and unknown
Leaves ==
    CoreLeaves
    \cup {Leaf("text/plain", charset, <<"0xFF">>) :
            charset \in {NoCharset, "latin-1", "us-ascii", "cp437", "x-unknown"}}
    \cup {Leaf("text/html", "x-unknown", <<"0xFF">>)}

\* the parts of a multipart sub-part
NestedLeaves ==
    {Leaf("text/plain", NoCharset, <<>>), Leaf("text/plain", NoCharset, <<"a">>),
     Leaf("text/html", NoCharset, <<"h">>)}

NestedMultiparts ==
    {Multipart("multipart/alternative", "b1", parts) :
        parts \in TextsUpTo(NestedLeaves, MaxNestedParts) \ {<<>>}}

Multiparts ==
    {Multipart("multipart/mixed", "b0", parts) :
        parts \in TextsUpTo(Leaves \cup NestedMultiparts, MaxParts) \ {<<>>}}

\* the headers of the messages that have any
HeaderProfiles ==
    { <<Header(SUBJECT, <<"H", "i", "!">>)>>,
      <<Header(SUBJECT, HeaderObject)>>,
      <<Header(REPLY_TO, HeaderObject)>>,
      <<Header(TO, <<"x", "@", "y">>), Header(TO, HeaderObject)>>,
      <<Header(FROM, <<"a", "@", "b", ".", "t", "k">>),
        Header(<<"r", "e", "p", "l", "y", "-", "t", "o">>, <<"a", "@", "c">>),
        Header(TO, <<"x", "@", "y">>), Header(TO, <<"z", "@", "y">>)>> }

\* bytes that spell no message
GarbageBytes ==
    { <<"0xFF">>, <<"0xFF", "<", "a">>, <<" ", "0xFF">>, UNIXFROM \o <<"x", "\n", "0xFF">> }

Files ==
    {Rfc822(m) : m \in Leaves \cup Multiparts}
    \cup {Rfc822(with_headers(m, headers)) :
            m \in {Leaf("text/plain", NoCharset, <<"a">>),
                   Multipart("multipart/mixed", "b0", <<Leaf("text/html", NoCharset, <<>>)>>)},
            headers \in HeaderProfiles}
    \cup {Garbage(bytes) : bytes \in GarbageBytes}

\* a multipart message with one text/plain part, and the file of `size`
\* bytes that spells it and goes on with an epilogue
ATTACHED == Multipart("multipart/mixed", "b0", <<Leaf("text/plain", NoCharset, <<"a">>)>>)
LargeFile(size) == Rfc822WithEpilogue(ATTACHED, size - Len(bytes_of(ATTACHED)))

\* the files as message/rfc822, and files of no byte, of one byte, of 5 MB
\* and of one byte more under an accepted and under a refused content type
Uploads ==
    {UploadFile("message/rfc822", data) : data \in Files}
    \cup {UploadFile(content_type, data) :
            content_type \in {"application/octet-stream", "image/png"},
            data \in {Garbage(<<>>), Garbage(<<"0xFF">>),
                          LargeFile(MAX_FILE_SIZE_BYTES),
                          LargeFile(MAX_FILE_SIZE_BYTES + 1)}}

\* ----------------------------------------------- the file endpoint's steps
\* One upload has arrived at POST /api/analyze/file; its handler has run no
\* statement yet and has read nothing.
InitDecode ==
    /\ pc = "upload"
    /\ upload \in Uploads
    /\ contents = NoBytes
    /\ message = NoMessage
    /\ content = NoContent
    /\ error = NoException
    /\ features = NoFeatures
    /\ raw_score = NoScore
    /\ score = NoScore
    /\ response = NoResponse
    /\ calls = <<>>
    /\ analyzer = new_EmailAnalyzer
    /\ text = <<>> /\ normalized = <<>> /\ renormalized = <<>>

\* line 55 with the limit itself refused
too_large_from_limit(size) == size >= MAX_FILE_SIZE_BYTES

\* routers/analyze.py line 55: len(contents) > _MAX_FILE_SIZE_BYTES
too_large(size) == size > MAX_FILE_SIZE_BYTES

\* routers/analyze.py lines 43-47: a content type outside the accepted set
\* ends the request with a 415 and the file is never read; otherwise the
\* handler comes to `await file.read()` (line 49) and waits there
check_content_type ==
    /\ pc = "upload"
    /\ IF upload.content_type \notin ACCEPTED_CONTENT_TYPES
         THEN error' = HTTPException(415, "Unsupported content type") /\ pc' = "done"
         ELSE error' = error /\ pc' = "reading"
    /\ UNCHANGED <<upload, contents, message, content,
                   norm_vars, call_vars, features, raw_score, score, response>>

\* routers/analyze.py lines 49-59: file.read() returns and `contents` is the
\* bytes of the file; no bytes end the request with a 400, more than 5 MB
\* with a 413; otherwise the next statement is the call of the analyzer
\* (line 62)
read_contents ==
    /\ pc = "reading"
    /\ \E data \in {upload.contents} : \E length \in {size_of(data)} :
        /\ contents' = data
        /\ IF length = 0
             THEN error' = HTTPException(400, "Uploaded file is empty.") /\ pc' = "done"
           ELSE IF too_large(length)
             THEN error' = HTTPException(413, "File exceeds the maximum allowed size of 5 MB.")
                  /\ pc' = "done"
           ELSE error' = error /\ pc' = "accepted"
    /\ UNCHANGED <<upload, message, content,
                   norm_vars, call_vars, features, raw_score, score, response>>

\* routers/analyze.py line 62 and analyzer.py line 144: analyze_eml_bytes is
\* called with the bytes read and parses them
parse ==
    /\ pc = "accepted"
    /\ message' = message_from_bytes(contents)
    /\ pc' = "parsed"
    /\ UNCHANGED <<upload, contents, content, error,
                   norm_vars, call_vars, features, raw_score, score, response>>

\* analyzer.py lines 145-156: the EmailContent, or the LookupError of a
\* decode, which line 64 of the router turns into a 400
decode ==
    /\ pc = "parsed"
    /\ LET body == extract_body(message)
           html_body == extract_html_body(message)
       IN
       IF is_raised_text(body) \/ is_raised_text(html_body)
       THEN /\ error' = HTTPException(400, "LookupError")
            /\ pc' = "done"
            /\ content' = content
       ELSE /\ content' = EmailContent(get(message, SUBJECT), body,
                                       serialize_headers(message),
                                       get(message, FROM), get(message, REPLY_TO),
                                       get_all(message, TO), html_body)
            /\ pc' = "content"
            /\ error' = error
    /\ UNCHANGED <<upload, contents, message,
                   norm_vars, call_vars, features, raw_score, score, response>>

\* analyzer.py lines 160-165: the texts are normalized and the features
\* extracted; a body or subject that is no text is a TypeError in
\* _normalize_text, and every exception becomes a 400
extract ==
    /\ pc = "content"
    /\ LET f == extract_features(content, normalize_text(content.body),
                                 normalize_text(or_empty(content.subject)))
       IN
       IF ~is_str(content.body) \/ ~is_str(or_empty(content.subject))
       THEN error' = HTTPException(400, "TypeError") /\ pc' = "done" /\ features' = features
       ELSE IF is_raised(f)
       THEN error' = HTTPException(400, f.raised) /\ pc' = "done" /\ features' = features
       ELSE error' = error /\ pc' = "features" /\ features' = f
    /\ UNCHANGED <<upload, contents, message, content,
                   norm_vars, call_vars, raw_score, score, response>>

\* The handler of the one upload, statement by statement; pc = "reading" is
\* the handler waiting in `await file.read()`.
NextDecode ==
    check_content_type \/ read_contents \/ parse \/ decode \/ extract \/ run_analysis

SpecDecode == InitDecode /\ [][NextDecode]_vars

\* ------------------------------------------------- the decoder's claims
\* the upload passed the checks of analyze_file
C7_Accepted ==
    /\ upload.content_type \in ACCEPTED_CONTENT_TYPES
    /\ contents # NoBytes
    /\ size_of(contents) > 0
    /\ size_of(contents) <= MAX_FILE_SIZE_BYTES

\* C7: when the bytes of the upload cannot be parsed as a structured mail
\* message, the decoder fails with MalformedMessageError and the analysis is
\* aborted: no AnalysisResponse and no partial result is produced.
C7_MalformedInputIsRejected ==
    (pc = "done" /\ C7_Accepted /\ contents.kind = "garbage") =>
        /\ error # NoException
        /\ error.detail = "MalformedMessageError"
        /\ response = NoResponse
        /\ content = NoContent
        /\ features = NoFeatures

\* The places of the parts below a message, to a depth of two: <<i>> is the
\* i-th sub-part, <<i, j>> the j-th sub-part of that.
C8_Places(m) ==
    {<<i>> : i \in DOMAIN m.parts}
    \cup UNION {{<<i, j>> : j \in DOMAIN m.parts[i].parts} : i \in DOMAIN m.parts}

C8_PartAt(m, place) ==
    IF Len(place) = 1 THEN m.parts[place[1]] ELSE m.parts[place[1]].parts[place[2]]

\* depth-first order: a part comes before its sub-parts, and these before
\* the parts that follow it
C8_Before(p, q) ==
    \/ p[1] < q[1]
    \/ p[1] = q[1] /\ Len(p) < Len(q)
    \/ p[1] = q[1] /\ Len(p) = 2 /\ Len(q) = 2 /\ p[2] < q[2]

\* the first of a non-empty set of places
C8_First(places) == CHOOSE p \in places : \A q \in places \ {p} : C8_Before(p, q)

\* the places of the text/plain parts, and of those with a payload
C8_Plain(m) == {p \in C8_Places(m) : C8_PartAt(m, p).content_type = "text/plain"}
C8_PlainWithPayload(m) == {p \in C8_Plain(m) : C8_PartAt(m, p).payload # <<>>}

\* every part of the message declares a charset Python knows, or none
C8_KnownCharsets(m) ==
    \A p \in C8_Places(m) : codec_of(C8_PartAt(m, p).content_charset) # "unknown"

C8_WitnessPassedOver ==
    /\ pc = "content"
    /\ Len(message.parts) = 2
    /\ message.parts[1] = Leaf("text/plain", NoCharset, <<>>)
    /\ message.parts[2] = Leaf("text/plain", NoCharset, <<"b">>)
    /\ content.body = <<"b">>

\* the tree has no text/plain part with a payload: the body is the payload
\* of the first sub-part
C8_WitnessFallback ==
    /\ pc = "content"
    /\ Len(message.parts) = 2
    /\ message.parts[1] = Leaf("text/html", NoCharset, <<"h">>)
    /\ message.parts[2] = Leaf("text/plain", NoCharset, <<>>)
    /\ content.body = <<"h">>

C9_NoPayload(m) == \A i \in DOMAIN walk(m) : walk(m)[i].payload = <<>>

\* C9: for every parsed message, single-part or multipart, that has no body
\* and no decodable payload in any part, the decoder yields the empty string
\* as the body, and the analysis completes with a full AnalysisResponse
\* rather than an error.
C9_NoPayloadGivesEmptyBody ==
    /\ (pc \in {"content", "features"} /\ C9_NoPayload(message)) => content.body = <<>>
    /\ (pc = "done" /\ message # NoMessage /\ C9_NoPayload(message)
            /\ is_str(or_empty(get(message, SUBJECT)))) =>
          /\ error = NoException
          /\ response # NoResponse
          /\ Len(response.insights) = 6

\* -------------------------------------------------- the endpoint's claims
\* analyze_eml_bytes has been called, or its call is the next statement
C12_AnalyzerReached ==
    pc \in {"accepted", "parsed", "content", "features"} \/ message # NoMessage

\* C12: on the path of uploaded files the analyzer is called only after the
\* caller's checks have passed: analyze_eml_bytes is never reached with an
\* empty payload or with one larger than 5 MB (5 * 1024 * 1024 bytes); such
\* uploads are rejected first, and a payload of exactly 5 MB is accepted.
\* The checks come in the order of the handler: the content type before the
\* file is read, the size of what was read before the analyzer is called.
C12_AnalyzerOnlyAfterChecks ==
    /\ C12_AnalyzerReached =>
          /\ contents = upload.contents
          /\ size_of(contents) > 0
          /\ size_of(contents) <= 5 * 1024 * 1024
          /\ upload.content_type \in ACCEPTED_CONTENT_TYPES
    /\ pc = "reading" =>
          /\ upload.content_type \in ACCEPTED_CONTENT_TYPES
          /\ contents = NoBytes
          /\ error = NoException
    /\ (pc = "done" /\ upload.content_type \notin ACCEPTED_CONTENT_TYPES) =>
          /\ error # NoException
          /\ error.status_code = 415
          /\ contents = NoBytes
    /\ (pc = "done" /\ (upload.size = 0 \/ upload.size > 5 * 1024 * 1024)) =>
          /\ error # NoException
          /\ error.status_code \in {400, 413, 415}
          /\ response = NoResponse
          /\ message = NoMessage
    /\ (pc = "done" /\ upload.size = 0
            /\ upload.content_type \in ACCEPTED_CONTENT_TYPES) =>
          error.status_code = 400
    /\ (pc = "done" /\ upload.size > 5 * 1024 * 1024
            /\ upload.content_type \in ACCEPTED_CONTENT_TYPES) =>
          error.status_code = 413
    /\ (pc \notin {"upload", "reading"} /\ upload.size = 5 * 1024 * 1024
            /\ upload.content_type \in ACCEPTED_CONTENT_TYPES) =>
          C12_AnalyzerReached

\* an upload of exactly 5 MB was read, handed to the analyzer and answered
C12_Witness ==
    /\ pc = "done"
    /\ upload.size = 5 * 1024 * 1024
    /\ contents # NoBytes
    /\ size_of(contents) = 5 * 1024 * 1024
    /\ message # NoMessage
    /\ response # NoResponse

\* uploads of no bytes and of one byte more than 5 MB were read and refused
C12_WitnessEmpty ==
    /\ pc = "done" /\ upload.size = 0 /\ contents # NoBytes
    /\ error # NoException /\ error.status_code = 400
C12_WitnessLarge ==
    /\ pc = "done" /\ upload.size = 5 * 1024 * 1024 + 1 /\ contents # NoBytes
    /\ error # NoException /\ error.status_code = 413
\* an upload waits in file.read() after its content type was accepted
C12_WitnessReading ==
    pc = "reading" /\ upload.size = 5 * 1024 * 1024 + 1 /\ contents = NoBytes

\* ------------------------------------------- handlers on the event loop
\* The handlers are coroutines of one event loop: a handler runs from one
\* await to the next with no other handler in between.  pc = "idle" is the
\* loop between two handlers; the variables of one request (upload,
\* contents, message, content, features, ...) are the locals of the handler
\* that is running.  The one await of the two handlers is `await
\* file.read()` (routers/analyze.py line 49): there a handler is suspended
\* and the other calls run; what it keeps over the suspension is its
\* parameter `file`.

\* an analysis that leaves a mark on the analyzer: the version string is
\* changed by the first call served
self_after_analysis_marked(self, email) == [self EXCEPT !.model_version = "0.1.0-ml+1"]

\* the attributes of self when a call of analyze_text or analyze_eml_bytes
\* returns or raises: no statement of lines 128-184, and none of the helpers
\* they call, assigns an attribute of self
self_after_analysis(self, email) == self

\* schemas.AnalyzeTextRequest: subject and headers are Optional[str], body
\* is a str, required, with min_length=1; pydantic refuses a subject or
\* headers that is neither None nor a string, a body that is no string and
\* a body of no character
AnalyzeTextRequest(subject, body, headers) ==
    IF subject # None /\ ~is_str(subject) THEN Raised("ValidationError")
    ELSE IF ~is_str(body) THEN Raised("ValidationError")
    ELSE IF Len(body) < 1 THEN Raised("ValidationError")
    ELSE IF headers # None /\ ~is_str(headers) THEN Raised("ValidationError")
    ELSE [subject |-> subject, body |-> body, headers |-> headers]

\* what a call ends with: the status code, the detail of the exception if
\* there is one, and the fields of the response if there is one
Outcome(status_code, detail, result) ==
    [status_code |-> status_code, detail |-> detail, result |-> result]
NoOutcome == [kind |-> "none"]
NoLocals == [kind |-> "none"]

\* a call as it arrives: the endpoint and what the client sent (the JSON
\* body of a text request, the file of an upload)
Call(endpoint, payload) ==
    [endpoint |-> endpoint, payload |-> payload, pc |-> "pending",
     outcome |-> NoOutcome, locals |-> NoLocals]

\* POST /api/analyze/text.  FastAPI builds the AnalyzeTextRequest from the
\* JSON body and answers 422 itself when pydantic refuses it: the handler
\* does not run.  Otherwise routers.analyze.analyze_text (lines 22-30), which
\* has no await, runs into EmailAnalyzer.analyze_text up to its call of
\* _run_analysis (analyzer.py lines 131-137).
call_analyze_text(i) ==
    /\ pc = "idle"
    /\ calls[i].endpoint = "text"
    /\ calls[i].pc = "pending"
    /\ \E payload \in {AnalyzeTextRequest(calls[i].payload.subject, calls[i].payload.body,
                                          calls[i].payload.headers)} :
        IF is_raised(payload)
        THEN /\ calls' = [calls EXCEPT ![i].pc = "done",
                                       ![i].outcome = Outcome(422, payload.raised, NoResponse)]
             /\ UNCHANGED <<pc, content>>
        ELSE /\ calls' = [calls EXCEPT ![i].pc = "running"]
             /\ content' = EmailContent(payload.subject, payload.body, payload.headers,
                                        None, None, None,
                                        IF \/ contains(lower(payload.body), HTML_OPEN)
                                           \/ contains(lower(payload.body), BODY_OPEN)
                                          THEN payload.body ELSE None)
             /\ pc' = "content"
    /\ UNCHANGED <<analyzer, upload, contents, message, error,
                   norm_vars, features, raw_score, score, response>>

\* POST /api/analyze/file: routers.analyze.analyze_file is entered with the
\* UploadFile as its parameter `file` (line 38)
call_analyze_file(i) ==
    /\ pc = "idle"
    /\ calls[i].endpoint = "file"
    /\ calls[i].pc = "pending"
    /\ calls' = [calls EXCEPT ![i].pc = "running"]
    /\ upload' = calls[i].payload
    /\ pc' = "upload"
    /\ UNCHANGED <<analyzer, contents, message, content, error,
                   norm_vars, features, raw_score, score, response>>

\* line 49, `await file.read()`: the read does not return at once, the
\* handler is suspended and the event loop is free to run other handlers
await_read(i) ==
    /\ pc = "reading"
    /\ calls[i].pc = "running"
    /\ calls' = [calls EXCEPT ![i].pc = "reading"]
    /\ upload' = NoUpload
    /\ pc' = "idle"
    /\ UNCHANGED <<analyzer, contents, message, content, error,
                   norm_vars, features, raw_score, score, response>>

\* line 49: the event loop resumes the handler, which goes on with its own
\* `file` where it stopped
resume_analyze_file(i) ==
    /\ pc = "idle"
    /\ calls[i].pc = "reading"
    /\ calls' = [calls EXCEPT ![i].pc = "running"]
    /\ upload' = calls[i].payload
    /\ pc' = "reading"
    /\ UNCHANGED <<analyzer, contents, message, content, error,
                   norm_vars, features, raw_score, score, response>>

\* what the running handler ends with: the HTTPException it raised (an
\* exception of the analyzer is a 400 on the file endpoint, line 64, and is
\* not caught on the text endpoint), or the response with its status code
\* (analyzer.py lines 171-184: the version is read from self)
outcome_of(self, endpoint) ==
    IF error # NoException
    THEN Outcome(IF endpoint = "text" THEN 500 ELSE error.status_code, error.detail,
                 NoResponse)
    ELSE Outcome(IF endpoint = "text" THEN 200 ELSE 201, "",
                 [response      |-> response,
                  model_version |-> self.model_version,
                  metadata      |-> EmailMetadata(content.subject, content.from_address,
                                                  content.reply_to, content.to_addresses)])

\* the running handler returns or raises and its locals are gone; what it
\* held is written down beside the call for the comparison of two calls
return_response(i) ==
    /\ pc = "done"
    /\ calls[i].pc = "running"
    /\ calls' = [calls EXCEPT ![i].pc = "done",
                              ![i].outcome = outcome_of(analyzer, calls[i].endpoint),
                              ![i].locals = [content |-> content, features |-> features,
                                             raw_score |-> raw_score]]
    /\ analyzer' = self_after_analysis(analyzer, content)
    /\ upload' = NoUpload
    /\ contents' = NoBytes
    /\ message' = NoMessage
    /\ content' = NoContent
    /\ error' = NoException
    /\ features' = NoFeatures
    /\ raw_score' = NoScore
    /\ score' = NoScore
    /\ response' = NoResponse
    /\ pc' = "idle"
    /\ UNCHANGED norm_vars

\* ------------------------------------------------- two uploads in flight
\* The longest address of the sender and reply-to headers.
MaxAddrLen == 2

\* the addresses of the scenario: a sender, a reply-to of another domain and
\* a reply-to of the sender's domain
BOSS ==
    <<"b", "o", "s", "s", "@", "c", "o", "m", "p", "a", "n", "y", ".", "c",
      "o", "m">>
BOSS_ELSEWHERE ==
    <<"b", "o", "s", "s", "@", "t", "o", "t", "a", "l", "l", "y", "-", "d",
      "i", "f", "f", "e", "r", "e", "n", "t", ".", "r", "u">>
HR ==
    <<"h", "r", "@", "c", "o", "m", "p", "a", "n", "y", ".", "c", "o", "m">>

Senders == {None, BOSS, <<"@", "x">>, <<"a", "@", "b", ".", "t", "k">>}
ReplyAddresses ==
    TextsUpTo({"@", "x", "y"}, MaxAddrLen) \cup {None, BOSS, BOSS_ELSEWHERE, HR}
\* no reply-to, and reply-to addresses of the domains of the senders
MatchingAddresses == {None, BOSS, HR, <<"@", "x">>}
Bodies == { <<"h", "i">>, <<"A", "!", "<", "b", ">">> }

\* a text/plain message with these sender, reply-to and body
ReplyMessage(from_address, reply_to, body) ==
    Message("text/plain", NoCharset,
            (IF from_address = None THEN <<>> ELSE <<Header(FROM, from_address)>>)
              \o (IF reply_to = None THEN <<>> ELSE <<Header(REPLY_TO, reply_to)>>),
            body, <<>>, <<>>)

\* Two uploads that differ in the reply-to header alone have arrived; no
\* handler is running.
InitReply ==
    /\ pc = "idle"
    /\ \E from_address \in Senders, first \in ReplyAddresses, second \in MatchingAddresses,
          body \in Bodies :
        calls = << Call("file", UploadFile("message/rfc822",
                                Rfc822(ReplyMessage(from_address, first, body)))),
                   Call("file", UploadFile("message/rfc822",
                                Rfc822(ReplyMessage(from_address, second, body)))) >>
    /\ upload = NoUpload
    /\ contents = NoBytes
    /\ message = NoMessage
    /\ content = NoContent
    /\ error = NoException
    /\ features = NoFeatures
    /\ raw_score = NoScore
    /\ score = NoScore
    /\ response = NoResponse
    /\ analyzer = new_EmailAnalyzer
    /\ text = <<>> /\ normalized = <<>> /\ renormalized = <<>>

\* The two handlers on the event loop: either is entered first, either may
\* be suspended in file.read() while the other runs from its entry or from
\* its own file.read() to its end, and either ends first.
NextReply ==
    \/ \E i \in DOMAIN calls :
        \/ call_analyze_file(i)
        \/ await_read(i)
        \/ resume_analyze_file(i)
        \/ return_response(i)
    \/ check_content_type
    \/ read_contents
    \/ parse
    \/ decode
    \/ extract
    \/ run_analysis

SpecReply == InitReply /\ [][NextReply]_vars

\* the call was answered with a response
C10_Answered(i) == calls[i].pc = "done" /\ calls[i].outcome.status_code = 201

\* both calls were answered, call i with reply_to_different set and call j
\* without
C10_OnlyFirstDiffers(i, j) ==
    /\ C10_Answered(i) /\ C10_Answered(j)
    /\ calls[i].locals.features.reply_to_different
    /\ ~calls[j].locals.features.reply_to_different

\* 2^-50, less than 1e-15
C10_Rounding == Float(0, <<0, 0, 0, 1024>>, -102)

\* C10 (as the code has it): of two messages that are identical except that
\* one has sender and reply-to with different extracted domains
\* (reply_to_different = true) and the other has matching domains, no other
\* feature differs, and the first's score sum before the clamp is the
\* second's with the weight 0.10 added as one more term: it exceeds the
\* second's by 0.10 up to the rounding of the additions in doubles (the
\* difference is within 2^-50 of 0.10), whatever the other feature values
\* and in whatever order and interleaving the two uploads are served.
\* The sender boss@company.com with the reply-to boss@totally-different.ru
\* has reply_to_different = true.
C10_ReplyToDifferentAddsTheWeightRounded ==
    \A i \in DOMAIN calls, j \in DOMAIN calls :
        /\ C10_OnlyFirstDiffers(i, j) =>
              /\ [calls[i].locals.features EXCEPT !.reply_to_different = FALSE]
                    = calls[j].locals.features
              /\ float_lt(calls[j].locals.raw_score, calls[i].locals.raw_score)
              /\ float_le(float_abs(float_sub(float_sub(calls[i].locals.raw_score,
                                                        calls[j].locals.raw_score),
                                              Decimal(10, 100))),
                          C10_Rounding)
        /\ (C10_Answered(i) /\ C10_Answered(j)) =>
              /\ (calls[i].locals.features.reply_to_different
                    = calls[j].locals.features.reply_to_different) =>
                    calls[i].locals.raw_score = calls[j].locals.raw_score
              /\ (/\ calls[i].locals.content.from_address = BOSS
                  /\ calls[i].locals.content.reply_to = BOSS_ELSEWHERE) =>
                    calls[i].locals.features.reply_to_different
              /\ (/\ calls[i].locals.content.from_address = BOSS
                  /\ calls[i].locals.content.reply_to = HR) =>
                    ~calls[i].locals.features.reply_to_different

\* the scenario: boss@company.com with reply-to boss@totally-different.ru
\* and the same message with a reply-to of the sender's domain, both answered
C10_Witness ==
    /\ C10_OnlyFirstDiffers(1, 2)
    /\ calls[1].locals.content.from_address = BOSS
    /\ calls[1].locals.content.reply_to = BOSS_ELSEWHERE
    /\ calls[2].locals.content.reply_to = HR
    /\ calls[1].locals.features.exclamation_count = 1
    /\ float_lt(calls[2].locals.raw_score, calls[1].locals.raw_score)

\* the second upload is answered while the first waits in file.read()
C10_WitnessSuspended ==
    /\ calls[1].pc = "reading"
    /\ calls[1].payload.contents.message.headers
          = <<Header(FROM, BOSS), Header(REPLY_TO, BOSS_ELSEWHERE)>>
    /\ C10_Answered(2)
    /\ calls[2].locals.content.reply_to = HR

\* the second upload is being analyzed while the first waits in file.read()
C10_WitnessRunning ==
    /\ calls[1].pc = "reading"
    /\ calls[2].pc = "running"
    /\ pc = "features"
    /\ content.reply_to = HR

\* C10 (as stated): the first's score sum before the clamp exceeds the
\* second's by exactly 0.10, whatever the other feature values.
C10_ReplyToDifferentAddsTenHundredths ==
    \A i \in DOMAIN calls, j \in DOMAIN calls :
        C10_OnlyFirstDiffers(i, j) =>
            float_sub(calls[i].locals.raw_score, calls[j].locals.raw_score)
                = Decimal(10, 100)

\* ------------------------------------------------ the feature extractor
\* The longest body that is spelled out character by character.
MaxBodyLen == 4

\* the bodies of the specification's scenarios A and B
SCENARIO_A ==
    <<"D", "e", "a", "r", " ", "u", "s", "e", "r", ",", " ", "p", "l", "e",
      "a", "s", "e", " ", "v", "e", "r", "i", "f", "y", " ", "y", "o", "u",
      "r", " ", "a", "c", "c", "o", "u", "n", "t", " ", "n", "o", "w", ",",
      " ", "y", "o", "u", "r", " ", "a", "c", "c", "o", "u", "n", "t", " ",
      "i", "s", " ", "s", "u", "s", "p", "e", "n", "d", "e", "d", "!", "!",
      "!", " ", "c", "l", "i", "c", "k", " ", "h", "e", "r", "e", ":", " ",
      "h", "t", "t", "p", ":", "/", "/", "s", "e", "c", "u", "r", "e", "-",
      "l", "o", "g", "i", "n", ".", "t", "k", "/", "v", "e", "r", "i", "f",
      "y">>
SCENARIO_B ==
    <<"H", "i", " ", "t", "e", "a", "m", ",", " ", "a", "t", "t", "a", "c",
      "h", "i", "n", "g", " ", "t", "h", "e", " ", "i", "n", "v", "o", "i",
      "c", "e", " ", "n", "u", "m", "b", "e", "r", " ", "4", "5", "2", "1",
      " ", "a", "n", "d", " ", "t", "r", "a", "c", "k", "i", "n", "g", " ",
      "i", "n", "f", "o", " ", "f", "o", "r", " ", "y", "o", "u", "r", " ",
      "s", "h", "i", "p", "p", "i", "n", "g", " ", "o", "r", "d", "e", "r",
      ".", " ", "T", "h", "a", "n", "k", "s", "!">>
\* eleven runs of four digits in one word
DIGIT_RUNS ==
    <<"1", "1", "1", "1", "a", "1", "1", "1", "1", "a", "1", "1", "1", "1",
      "a", "1", "1", "1", "1", "a", "1", "1", "1", "1", "a", "1", "1", "1",
      "1", "a", "1", "1", "1", "1", "a", "1", "1", "1", "1", "a", "1", "1",
      "1", "1", "a", "1", "1", "1", "1", "a", "1", "1", "1", "1", "a">>
\* a link whose URL urlparse refuses
BAD_LINK ==
    <<"<", "a", " ", "h", "r", "e", "f", "=", "\"", "h", "t", "t", "p", ":",
      "/", "/", "[", "x", "\"", ">", "h", "t", "t", "p", "<", "/", "a", ">">>

\* characters outside ASCII: a capital E with acute, vertical tabs between
\* words, "now" before a letter e with acute, a dotless i in "verify", a long
\* s in "asap"
NON_ASCII ==
    <<"U+00C9", "U+000B", "n", "o", "w", "U+00E9", " ", "1", "2", "3", "4",
      "U+000B", "1", "2", "3", "4", " ", "v", "e", "r", "U+0131", "f", "y",
      " ", "a", "U+017F", "a", "p">>

FeatureBodies ==
    TextsUpTo({"A", "<", ">", "!", "1", " "}, MaxBodyLen)
    \cup {SCENARIO_A, SCENARIO_B, DIGIT_RUNS, BAD_LINK, NON_ASCII}

\* no subject and no sender, or both
FeatureHeaders ==
    { [subject |-> None, from_address |-> None],
      [subject |-> <<"N", "o", "w", "?", "!">>,
       from_address |-> <<"a", "@", "U+00C9", ".", "t", "k">>] }

\* any EmailContent with a text as its body
InitFeatures ==
    /\ pc = "content"
    /\ \E body \in FeatureBodies, headers \in FeatureHeaders :
        content = EmailContent(headers.subject, body, None, headers.from_address,
                               None, <<>>, None)
    /\ upload = NoUpload
    /\ contents = NoBytes
    /\ message = NoMessage
    /\ error = NoException
    /\ features = NoFeatures
    /\ raw_score = NoScore
    /\ score = NoScore
    /\ response = NoResponse
    /\ calls = <<>>
    /\ analyzer = new_EmailAnalyzer
    /\ text = <<>> /\ normalized = <<>> /\ renormalized = <<>>

NextFeatures == extract

SpecFeatures == InitFeatures /\ [][NextFeatures]_vars

\* C13: for every EmailContent, the extracted EmailFeatures have an uppercase
\* ratio, an HTML-tag-to-body-length ratio and a spelling-error estimate in
\* [0,1] each, and every count field (suspicious keywords, trust keywords,
\* URLs, URLs of suspicious domains, exclamations, questions, urgency words)
\* is >= 0; for an empty body the uppercase ratio and the HTML ratio are 0.0
\* and the body length is 0.
C13_FeaturesInRange ==
    pc = "features" =>
        /\ in_unit(features.uppercase_ratio)
        /\ in_unit(features.html_ratio)
        /\ in_unit(features.spelling_errors_estimate)
        /\ features.suspicious_keyword_count >= 0
        /\ features.trust_keyword_count >= 0
        /\ features.url_count >= 0
        /\ features.suspicious_domain_count >= 0
        /\ features.exclamation_count >= 0
        /\ features.question_count >= 0
        /\ features.urgency_words >= 0
        /\ features.body_length = Len(content.body)
        /\ content.body = <<>> =>
              /\ features.uppercase_ratio = FloatZero
              /\ features.html_ratio = FloatZero
              /\ features.body_length = 0

\* eleven digit runs in one word: the estimate 1.1 is cut to 1.0
C13_Witness ==
    /\ pc = "features"
    /\ content.body = DIGIT_RUNS
    /\ features.spelling_errors_estimate = One
    /\ features.question_count = 1

\* scenario E: an empty body and no subject
C13_WitnessEmpty ==
    /\ pc = "features"
    /\ content.body = <<>>
    /\ content.subject = None
    /\ features.body_length = 0
    /\ features.uppercase_ratio = FloatZero
    /\ features.html_ratio = FloatZero

\* the body with characters outside ASCII, under the subject "Now?!": one
\* capital of 28 characters, six words with two digit runs, and two urgency
\* words, the subject's "now" and the body's "asap" whose long s matches
\* under re.IGNORECASE; the body's "now" before a letter is none
C13_WitnessNonAscii ==
    /\ pc = "features"
    /\ content.body = NON_ASCII
    /\ content.from_address # None
    /\ features.uppercase_ratio = int_truediv(1, 28)
    /\ features.spelling_errors_estimate = float_mul(int_truediv(2, 6), Literal(10))
    /\ features.urgency_words = 2
    /\ features.from_domain_suspicious

\* scenario A: at least two suspicious keywords, a URL of a suspicious
\* domain and an urgency word
C13_WitnessScenarioA ==
    /\ pc = "features"
    /\ content.body = SCENARIO_A
    /\ features.suspicious_keyword_count >= 2
    /\ features.suspicious_domain_count >= 1
    /\ features.urgency_words >= 1

\* a body whose link urlparse refuses: no features, the ValueError of line 441
C13_WitnessNoFeatures ==
    /\ pc = "done"
    /\ content.body = BAD_LINK
    /\ error # NoException
    /\ error.detail = "ValueError"

\* ------------------------------------------- calls on the one analyzer
\* The number of calls in flight on the two endpoints.
MaxCalls == 2

\* an HTML body, which analyze_text also hands on as html_body
HTML_BODY == BODY_OPEN \o <<">", "H", "i", "!">>

\* a short body that is scored as phishing
PHISHING_BODY ==
    <<"v", "e", "r", "i", "f", "y", " ", "n", "o", "w", " ", "h", "t",
      "t", "p", ":", "/", "/", "a", ".", "t", "k", " ", "!", "!", "!">>

\* a message with a sender, a Reply-To elsewhere and two recipients
ADDRESSED_MESSAGE ==
    with_headers(Leaf("text/plain", NoCharset, <<"a">>),
        <<Header(FROM, <<"a", "@", "b", ".", "t", "k">>),
          Header(REPLY_TO, <<"a", "@", "c">>),
          Header(TO, <<"x", "@", "y">>), Header(TO, <<"z", "@", "y">>)>>)

\* the uploads: a refused content type, a file of no bytes, a file of one
\* byte more than 5 MB, bytes that spell no message, a multipart message
\* without a payload, and a message with addresses
FileRequests ==
    << UploadFile("image/png", Garbage(<<"0xFF">>)),
       UploadFile("text/plain", Garbage(<<>>)),
       UploadFile("message/rfc822", LargeFile(MAX_FILE_SIZE_BYTES + 1)),
       UploadFile("text/plain", Garbage(<<"0xFF", "<", "a">>)),
       UploadFile("message/rfc822",
                  Rfc822(Multipart("multipart/mixed", "b0",
                                   <<Leaf("text/html", NoCharset, <<>>)>>))),
       UploadFile("message/rfc822", Rfc822(ADDRESSED_MESSAGE)) >>

\* the JSON bodies of the text requests: a body of no character, an HTML
\* body with a subject, a link urlparse refuses, a phishing text, and a body
\* that is null
TextRequests ==
    << [subject |-> None, body |-> <<>>, headers |-> None],
       [subject |-> <<"N", "o", "w", "?", "!">>, body |-> HTML_BODY, headers |-> None],
       [subject |-> None, body |-> BAD_LINK, headers |-> None],
       [subject |-> None, body |-> PHISHING_BODY, headers |-> None],
       [subject |-> <<"s">>, body |-> None, headers |-> <<"h">>] >>

\* the requests a client makes, the uploads first
Arrivals ==
    [k \in DOMAIN FileRequests |-> Call("file", FileRequests[k])]
    \o [k \in DOMAIN TextRequests |-> Call("text", TextRequests[k])]

\* MaxCalls requests have arrived, no handler is running; the analyzer is the
\* one constructed when the router module was imported (line 19).  The calls
\* are numbered in the order of Arrivals; the event loop serves them in any
\* order.
InitCalls ==
    /\ \E order \in [1..MaxCalls -> DOMAIN Arrivals] :
        /\ \A i \in 1..MaxCalls, j \in 1..MaxCalls : i < j => order[i] <= order[j]
        /\ calls = [i \in 1..MaxCalls |-> Arrivals[order[i]]]
    /\ analyzer = new_EmailAnalyzer
    /\ pc = "idle"
    /\ upload = NoUpload
    /\ contents = NoBytes
    /\ message = NoMessage
    /\ content = NoContent
    /\ error = NoException
    /\ text = <<>>
    /\ normalized = <<>>
    /\ renormalized = <<>>
    /\ features = NoFeatures
    /\ raw_score = NoScore
    /\ score = NoScore
    /\ response = NoResponse

NextCalls ==
    \/ \E i \in DOMAIN calls :
        \/ call_analyze_text(i)
        \/ call_analyze_file(i)
        \/ await_read(i)
        \/ resume_analyze_file(i)
        \/ return_response(i)
    \/ check_content_type
    \/ read_contents
    \/ parse
    \/ decode
    \/ extract
    \/ run_analysis

SpecCalls == InitCalls /\ [][NextCalls]_vars

\* the answer of a finished call as the client receives it
C11_Answer(call) ==
    [status_code |-> call.outcome.status_code, result |-> call.outcome.result]

\* What each request of Arrivals is answered when it is the only request
\* a newly started program serves, in the order of Arrivals: the status
\* code and the fields of the response as the program gave them, the
\* floats written as the doubles they are.
C11_Alone ==
       \* a refused content type
    << [status_code |-> 415, result |-> NoResponse],
       \* a file of no bytes
       [status_code |-> 400, result |-> NoResponse],
       \* one byte more than 5 MB
       [status_code |-> 413, result |-> NoResponse],
       \* bytes that spell no message
       \* confidence 0.4
       [status_code |-> 201,
        result |->
          [response |->
             AnalysisResponse("legitimate", Float(0, <<6554, 9830, 6553, 1638>>, -54),
                 <<>>,
                 <<AnalysisInsight("suspicious_keywords", 0, FloatZero),
                   AnalysisInsight("url_count", 0, FloatZero),
                   AnalysisInsight("suspicious_domains", 0, FloatZero),
                   AnalysisInsight("link_mismatch", 0, FloatZero),
                   AnalysisInsight("from_domain_suspicious", 0, FloatZero),
                   AnalysisInsight("trust_signals", 0, FloatZero)>>),
           model_version |-> "0.1.0-ml",
           metadata |-> [subject |-> None, from_address |-> None,
                         reply_to |-> None,
                         to_addresses |-> <<>>]]],
       \* a multipart message without a payload
       [status_code |-> 400, result |-> NoResponse],
       \* a message with addresses
       \* confidence 0.040000000000000036
       [status_code |-> 201,
        result |->
          [response |->
             AnalysisResponse("phishing", Float(0, <<5248, 7864, 11796, 1310>>, -57),
                 <<Highlight("from_domain_suspicious", <<>>),
                   Highlight("reply_to_different", <<>>)>>,
                 <<AnalysisInsight("suspicious_keywords", 0, FloatZero),
                   AnalysisInsight("url_count", 0, FloatZero),
                   AnalysisInsight("suspicious_domains", 0, FloatZero),
                   AnalysisInsight("link_mismatch", 0, FloatZero),
                   AnalysisInsight("from_domain_suspicious", 1, Float(0, <<7864, 11796, 1310, 1966>>, -56)),
                   AnalysisInsight("trust_signals", 0, FloatZero)>>),
           model_version |-> "0.1.0-ml",
           metadata |-> [subject |-> None, from_address |-> <<"a", "@", "b", ".", "t", "k">>,
                         reply_to |-> <<"a", "@", "c">>,
                         to_addresses |-> <<<<"x", "@", "y">>, <<"z", "@", "y">>>>]]],
       \* a body of no character
       [status_code |-> 422, result |-> NoResponse],
       \* an HTML body with a subject
       \* confidence 0.13777777777777778
       [status_code |-> 200,
        result |->
          [response |->
             AnalysisResponse("legitimate", Float(0, <<9976, 4951, 11068, 1128>>, -55),
                 <<>>,
                 <<AnalysisInsight("suspicious_keywords", 0, FloatZero),
                   AnalysisInsight("url_count", 0, FloatZero),
                   AnalysisInsight("suspicious_domains", 0, FloatZero),
                   AnalysisInsight("link_mismatch", 0, FloatZero),
                   AnalysisInsight("from_domain_suspicious", 0, FloatZero),
                   AnalysisInsight("trust_signals", 0, FloatZero)>>),
           model_version |-> "0.1.0-ml",
           metadata |-> [subject |-> <<"N", "o", "w", "?", "!">>, from_address |-> None,
                         reply_to |-> None,
                         to_addresses |-> <<>>]]],
       \* a link urlparse refuses
       [status_code |-> 500, result |-> NoResponse],
       \* a phishing text
       \* confidence 0.1333333333333333
       [status_code |-> 200,
        result |->
          [response |->
             AnalysisResponse("phishing", Float(0, <<4368, 1092, 4369, 1092>>, -55),
                 <<Highlight("suspicious_keywords", <<1>>),
                   Highlight("suspicious_domains", <<1>>)>>,
                 <<AnalysisInsight("suspicious_keywords", 1, Float(0, <<6554, 9830, 6553, 1638>>, -55)),
                   AnalysisInsight("url_count", 1, Float(0, <<13107, 3276, 13107, 1228>>, -55)),
                   AnalysisInsight("suspicious_domains", 1, Float(0, <<13107, 3276, 13107, 1228>>, -54)),
                   AnalysisInsight("link_mismatch", 0, FloatZero),
                   AnalysisInsight("from_domain_suspicious", 0, FloatZero),
                   AnalysisInsight("trust_signals", 0, FloatZero)>>),
           model_version |-> "0.1.0-ml",
           metadata |-> [subject |-> None, from_address |-> None,
                         reply_to |-> None,
                         to_addresses |-> <<>>]]],
       \* a body that is no string
       [status_code |-> 422, result |-> NoResponse] >>

C11_WitnessSuspended ==
    /\ calls[1].endpoint = "file" /\ calls[1].pc = "reading"
    /\ calls[2].endpoint = "text" /\ calls[2].pc = "done"
    /\ calls[2].outcome.status_code = 200

\* an upload is analyzed while another waits in file.read()
C11_WitnessBothReading ==
    /\ calls[1].endpoint = "file" /\ calls[1].pc = "reading"
    /\ calls[2].endpoint = "file" /\ calls[2].pc = "running"
    /\ pc = "features"

\* a text call that ends with an exception of the analyzer
C11_WitnessRaised ==
    \E i \in DOMAIN calls :
        /\ calls[i].endpoint = "text" /\ calls[i].pc = "done"
        /\ calls[i].outcome.status_code = 500

\* a text call with a body of no character, refused before the handler
C11_WitnessRefused ==
    \E i \in DOMAIN calls :
        /\ calls[i].endpoint = "text" /\ calls[i].pc = "done"
        /\ calls[i].payload.body = <<>>
        /\ calls[i].outcome.status_code = 422

\* a text call whose body is null, refused before the handler, after an
\* upload was answered
C11_WitnessNoString ==
    /\ calls[1].endpoint = "file" /\ calls[1].pc = "done"
    /\ calls[2].endpoint = "text" /\ calls[2].pc = "done"
    /\ calls[2].payload.body = None
    /\ calls[2].outcome.status_code = 422

\* the same upload twice, both answered
C11_WitnessTwice ==
    /\ calls[1].payload = calls[2].payload
    /\ calls[1].pc = "done" /\ calls[2].pc = "done"
    /\ calls[1].outcome.status_code = 201

====
